---- MODULE Spec2Model ----
(***************************************************************************)
(* Model of the Product Showcase agent (Agents/Product Showcase/agent.py): *)
(* the per-turn state machine of NanoBananaAgent.chat, its handlers and    *)
(* the text helpers it calls.  Texts are TLA+ strings processed character  *)
(* by character, as the Python code processes them.                        *)
(***************************************************************************)
EXTENDS Integers, Sequences, FiniteSets, TLC

(***************************************************************************)
(* Python values.  Optional[T] is a sequence of length at most one.        *)
(***************************************************************************)
None == <<>>
Some(v) == <<v>>
Get(o) == o[1]

(***************************************************************************)
(* str helpers                                                             *)
(***************************************************************************)
Char(s, i) == SubSeq(s, i, i)

Whitespace == {" ", "\t", "\n", "\r"}

Digits == {"0", "1", "2", "3", "4", "5", "6", "7", "8", "9"}

UpperLetters == "ABCDEFGHIJKLMNOPQRSTUVWXYZ"

LowerLetters == "abcdefghijklmnopqrstuvwxyz"

\* the least element of a set of integers, or the default if it is empty
MinOr(S, default) == IF S = {} THEN default ELSE CHOOSE a \in S : \A b \in S : a <= b

\* the greatest element of a set of integers, or the default if it is empty
MaxOr(S, default) == IF S = {} THEN default ELSE CHOOSE a \in S : \A b \in S : b <= a

\* str.find: 1-based index of the first occurrence of k in s at or after from, 0 if none
FindFrom(s, k, from) ==
    MinOr({i \in from..(Len(s) - Len(k) + 1) : SubSeq(s, i, i + Len(k) - 1) = k}, 0)

\* str.lower() on one character
LowerChar(c) ==
    IF FindFrom(UpperLetters, c, 1) = 0 THEN c
    ELSE Char(LowerLetters, FindFrom(UpperLetters, c, 1))

RECURSIVE Lower(_)
\* str.lower()
Lower(s) == IF s = "" THEN "" ELSE LowerChar(Head(s)) \o Lower(Tail(s))

\* needle in haystack
Contains(s, k) ==
    \E i \in 1..(Len(s) - Len(k) + 1) : SubSeq(s, i, i + Len(k) - 1) = k

\* str.startswith
StartsWith(s, p) == Len(p) <= Len(s) /\ SubSeq(s, 1, Len(p)) = p

RECURSIVE LStrip(_)
LStrip(s) == IF s # "" /\ Head(s) \in Whitespace THEN LStrip(Tail(s)) ELSE s

RECURSIVE RStrip(_)
RStrip(s) ==
    IF s # "" /\ Char(s, Len(s)) \in Whitespace THEN RStrip(SubSeq(s, 1, Len(s) - 1)) ELSE s

\* str.strip()
Strip(s) == RStrip(LStrip(s))

RECURSIVE LStripChar(_, _)
LStripChar(s, c) == IF s # "" /\ Head(s) = c THEN LStripChar(Tail(s), c) ELSE s

RECURSIVE RStripChar(_, _)
RStripChar(s, c) ==
    IF s # "" /\ Char(s, Len(s)) = c THEN RStripChar(SubSeq(s, 1, Len(s) - 1), c) ELSE s

\* str.strip(c) for a single character c
StripChar(s, c) == RStripChar(LStripChar(s, c), c)

\* str.isdigit() (ASCII digits)
IsDigit(s) == s # "" /\ \A i \in 1..Len(s) : Char(s, i) \in Digits

DigitValue(c) == FindFrom("0123456789", c, 1) - 1

RECURSIVE ToInt(_)
\* int(s) for a string of digits
ToInt(s) ==
    IF s = "" THEN 0 ELSE 10 * ToInt(SubSeq(s, 1, Len(s) - 1)) + DigitValue(Char(s, Len(s)))

RECURSIVE Replace(_, _, _)
\* str.replace(old, new): every non-overlapping occurrence, left to right
Replace(s, old, new) ==
    IF FindFrom(s, old, 1) = 0 THEN s
    ELSE SubSeq(s, 1, FindFrom(s, old, 1) - 1) \o new
         \o Replace(SubSeq(s, FindFrom(s, old, 1) + Len(old), Len(s)), old, new)

RECURSIVE Split(_, _)
\* str.split(sep) for a one-character separator
Split(s, sep) ==
    IF FindFrom(s, sep, 1) = 0 THEN <<s>>
    ELSE <<SubSeq(s, 1, FindFrom(s, sep, 1) - 1)>>
         \o Split(SubSeq(s, FindFrom(s, sep, 1) + 1, Len(s)), sep)

\* a list without its last item when that is the empty string
DropEmptyLast(parts) ==
    IF parts[Len(parts)] = "" THEN SubSeq(parts, 1, Len(parts) - 1) ELSE parts

\* str.splitlines() (on "\n"; a trailing newline adds no empty last line)
SplitLines(s) == IF s = "" THEN <<>> ELSE DropEmptyLast(Split(s, "\n"))

\* index of the first whitespace character of t, Len(t) + 1 if it has none
FirstSpace(t) == MinOr({i \in 1..Len(t) : Char(t, i) \in Whitespace}, Len(t) + 1)

RECURSIVE SplitWords(_)
\* str.split(): the maximal runs of non-whitespace characters
SplitWords(s) ==
    IF LStrip(s) = "" THEN <<>>
    ELSE <<SubSeq(LStrip(s), 1, FirstSpace(LStrip(s)) - 1)>>
         \o SplitWords(SubSeq(LStrip(s), FirstSpace(LStrip(s)), Len(LStrip(s))))

RECURSIVE Join(_, _)
\* sep.join(parts)
Join(parts, sep) ==
    IF parts = <<>> THEN ""
    ELSE IF Len(parts) = 1 THEN parts[1]
    ELSE parts[1] \o sep \o Join(Tail(parts), sep)

(***************************************************************************)
(* _extract_image_url (agent.py 52-86)                                     *)
(***************************************************************************)
\* index of the last character of the run of non-whitespace starting at i (i - 1 if empty)
NonSpaceRunEnd(s, i) == MinOr({j \in i..Len(s) : Char(s, j) \in Whitespace}, Len(s) + 1) - 1

\* length of the match of https?:// at the start of rest, 0 if none
SchemeLen(rest) ==
    IF StartsWith(rest, "https://") THEN 8
    ELSE IF StartsWith(rest, "http://") THEN 7
    ELSE 0

\* end of the match of [^\s]+ that follows a scheme of n characters found at i, 0 if none
UrlRestEnd(s, i, n) ==
    IF n = 0 \/ i + n > Len(s) \/ Char(s, i + n) \in Whitespace THEN 0
    ELSE NonSpaceRunEnd(s, i + n)

\* end of the match of r'https?://[^\s]+' starting at i, 0 if it does not match there
UrlMatchEnd(s, i) == UrlRestEnd(s, i, SchemeLen(SubSeq(s, i, Len(s))))

\* the match of url_pattern starting at i, None for i = 0
UrlAt(s, i) == IF i = 0 THEN None ELSE Some(SubSeq(s, i, UrlMatchEnd(s, i)))

\* re.findall(url_pattern, message)[0], or None
FirstUrl(s) == UrlAt(s, MinOr({i \in 1..Len(s) : UrlMatchEnd(s, i) > 0}, 0))

\* \w (ASCII)
WordChar(c) ==
    \/ FindFrom(UpperLetters, c, 1) > 0
    \/ FindFrom(LowerLetters, c, 1) > 0
    \/ c \in Digits
    \/ c = "_"

\* [\w\-~/]
PathChar(c) == WordChar(c) \/ c \in {"-", "~", "/"}

\* [\w\-]
NameChar(c) == WordChar(c) \/ c = "-"

\* (?:jpg|jpeg|png|gif|webp|bmp), in the order the pattern tries them
ImageExtensions == <<"jpg", "jpeg", "png", "gif", "webp", "bmp">>

\* length of the extension matched (re.IGNORECASE) at position i, 0 if none
ExtensionAt(s, i) ==
    Len(Append(ImageExtensions, "")[
        MinOr({k \in 1..Len(ImageExtensions) :
                 /\ i + Len(ImageExtensions[k]) - 1 <= Len(s)
                 /\ Lower(SubSeq(s, i, i + Len(ImageExtensions[k]) - 1)) = ImageExtensions[k]},
              Len(ImageExtensions) + 1)])

\* index of the last character of the run of [\w\-~/] starting at i (i - 1 if empty)
PathRunEnd(s, i) == MinOr({j \in i..Len(s) : ~PathChar(Char(s, j))}, Len(s) + 1) - 1

\* end of the match when the run of path characters from i ends at r and its
\* last slash is at last (i - 1 if it has none): the part after the last slash
\* is the file name, the part up to that slash is empty or is one or more
\* segments (two characters at least), and ".ext" follows the run
NameMatchEnd(s, i, r, last) ==
    IF /\ last < r
       /\ \A j \in (last + 1)..r : NameChar(Char(s, j))
       /\ (last = i - 1 \/ last - i + 1 >= 2)
       /\ r + 1 <= Len(s)
       /\ Char(s, r + 1) = "."
       /\ ExtensionAt(s, r + 2) > 0
    THEN r + 1 + ExtensionAt(s, r + 2)
    ELSE 0

\* end of the match of (?:[\w\-~/]+/)*[\w\-]+\.(?:ext) starting at i when the
\* run of path characters from i ends at r, 0 if none
RunMatchEnd(s, i, r) == NameMatchEnd(s, i, r, MaxOr({j \in i..r : Char(s, j) = "/"}, i - 1))

\* end of the match of (?:[\w\-~/]+/)*[\w\-]+\.(?:ext) starting at i, 0 if none
SegmentsMatchEnd(s, i) == RunMatchEnd(s, i, PathRunEnd(s, i))

\* length of the match of (?:\.{0,2}/) at the start of rest, 0 if none
PrefixLen(rest) ==
    IF StartsWith(rest, "../") THEN 3
    ELSE IF StartsWith(rest, "./") THEN 2
    ELSE IF StartsWith(rest, "/") THEN 1
    ELSE 0

\* the end of the match after a prefix of a characters, when it matches there;
\* else that of the pattern without the prefix
PrefixedMatchEnd(s, i, a) ==
    IF a > 0 /\ SegmentsMatchEnd(s, i + a) > 0
    THEN SegmentsMatchEnd(s, i + a)
    ELSE SegmentsMatchEnd(s, i)

\* end of the match of file_pattern starting at i, 0 if none: the optional
\* prefix (?:\.{0,2}/)? is tried first, then the pattern without it
FileMatchEnd(s, i) == PrefixedMatchEnd(s, i, PrefixLen(SubSeq(s, i, Len(s))))

\* the match of file_pattern starting at i, None for i = 0
FileAt(s, i) == IF i = 0 THEN None ELSE Some(SubSeq(s, i, FileMatchEnd(s, i)))

\* re.findall(file_pattern, message, re.IGNORECASE)[0], or None
FirstFile(s) == FileAt(s, MinOr({i \in 1..Len(s) : FileMatchEnd(s, i) > 0}, 0))

\* re.sub(re.escape(image_source), '', message).strip(), then ' '.join(clean_text.split())
RemoveSource(message, source) == Join(SplitWords(Strip(Replace(message, source, ""))), " ")

\* (clean_text, image_source) for the source found in the message
Extraction(message, image_source) ==
    IF image_source # None
    THEN [clean_text |-> RemoveSource(message, Get(image_source)), image_source |-> image_source]
    ELSE [clean_text |-> message, image_source |-> None]

\* an extraction that looks for a file path before it looks for a URL
extract_file_before_url(message) ==
    Extraction(message,
               IF FirstFile(message) # None THEN FirstFile(message) ELSE FirstUrl(message))

\* _extract_image_url(message) -> (clean_text, image_source): the first URL,
\* else the first file path
extract_image_url(message) ==
    Extraction(message,
               IF FirstUrl(message) # None THEN FirstUrl(message) ELSE FirstFile(message))

(***************************************************************************)
(* NanoBananaAgent._parse_text_content (agent.py 582-626)                  *)
(***************************************************************************)
cta_keywords ==
    {"comprá", "compra", "buy", "shop", "link en bio", "link in bio",
     "visita", "visit", "descubrí", "descubre"}

\* line.strip().strip('"').strip("'").strip(',').strip()
CleanPiece(line) == Strip(StripChar(StripChar(StripChar(Strip(line), "\""), "'"), ","))

\* user_message.replace(' y ', '\n').replace(' Y ', '\n').split('\n')
TextLines(user_message) == Split(Replace(Replace(user_message, " y ", "\n"), " Y ", "\n"), "\n")

RECURSIVE CollectPieces(_)
\* text_pieces: the cleaned lines of more than one character
CollectPieces(lines) ==
    IF lines = <<>> THEN <<>>
    ELSE (IF Len(CleanPiece(Head(lines))) > 1 THEN <<CleanPiece(Head(lines))>> ELSE <<>>)
         \o CollectPieces(Tail(lines))

\* a text_content dict; a key the dict does not hold is None
TextContent(h, s, c) == [headline |-> h, subheadline |-> s, cta |-> c]

\* an assignment that never looks for a call to action and keeps the last piece
AssignPiecesInOrder(user_message, text_pieces) ==
    IF Len(text_pieces) >= 3
    THEN TextContent(Some(text_pieces[1]), Some(text_pieces[2]),
                     Some(text_pieces[Len(text_pieces)]))
    ELSE IF Len(text_pieces) = 2
    THEN TextContent(Some(text_pieces[1]), Some(text_pieces[2]), None)
    ELSE IF Len(text_pieces) = 1
    THEN TextContent(Some(text_pieces[1]), None, None)
    ELSE TextContent(Some(Strip(user_message)), None, None)

\* the roles of the text pieces, by their number and the keywords (607-624)
AssignPieces(user_message, text_pieces) ==
    IF Len(text_pieces) >= 3
    THEN TextContent(Some(text_pieces[1]), Some(text_pieces[2]), Some(text_pieces[3]))
    ELSE IF Len(text_pieces) = 2
    THEN IF \E kw \in cta_keywords : Contains(Lower(text_pieces[2]), kw)
         THEN TextContent(Some(text_pieces[1]), None, Some(text_pieces[2]))
         ELSE TextContent(Some(text_pieces[1]), Some(text_pieces[2]), None)
    ELSE IF Len(text_pieces) = 1
    THEN TextContent(Some(text_pieces[1]), None, None)
    ELSE TextContent(Some(Strip(user_message)), None, None)

parse_text_content(user_message) ==
    AssignPieces(user_message, CollectPieces(TextLines(user_message)))

(***************************************************************************)
(* NanoBananaAgent: state (agent.py 226-235) and the values it holds       *)
(***************************************************************************)
\* a history entry; a key the dict does not hold is None / FALSE / <<>>
Turn(role, content, image_url, is_reset, references) ==
    [role |-> role, content |-> content, image_url |-> image_url,
     is_reset |-> is_reset, references |-> references]

UserTurn(content, image_url) == Turn("user", content, image_url, FALSE, <<>>)

AssistantTurn(content) == Turn("assistant", content, None, FALSE, <<>>)

\* __init__: the state of a new agent
NewAgent ==
    [history |-> <<>>,
     selected_reference |-> None,
     product_image_path |-> None,
     text_content |-> None,
     awaiting_text_input |-> FALSE,
     design_guidelines |-> None,
     product_analysis |-> None]

\* the value chat returns; a key the dict does not hold is None / <<>>
Result(type, text, file, references, postId) ==
    [type |-> type, text |-> text, file |-> file, references |-> references, postId |-> postId]

TextResult(text) == Result("text", text, None, <<>>, None)

\* chat did not return: the exception reached the caller
Raised(what) == Result("exception", what, None, <<>>, None)

\* fixed texts of the agent
GREETING == "Hola! Soy tu especialista en fotografia de producto para Instagram."

RESET_MSG == "Claro que si! Entendido, vamos a empezar de nuevo."

TEXT_QUESTION_DYNAMIC == "Perfecto! Basandome en la referencia que elegiste, necesito:"

TEXT_QUESTION_GENERIC == "Perfecto! Ahora, que texto queres que tenga tu post de Instagram?"

READY_NO_TEXT == "Perfecto! Tengo todo listo para crear tu post sin texto:"

READY_WITH_TEXT == "Perfecto! Tengo todo listo para crear tu post:"

(***************************************************************************)
(* The inputs of a turn and the answers of the collaborators               *)
(***************************************************************************)
\* chat calls of one session that are explored
MaxTurns == 3

\* chat calls of one session of the guided workflow that are explored
MaxGuidedTurns == 4

\* chat calls of one session of the workflow up to the generation that are explored
MaxWorkflowTurns == 4

\* chat calls of one session that are explored for the dispatch of the response
MaxDispatchTurns == 3

\* chat calls of one session whose responses carry blocks of several lines
MaxBlockTurns == 3

\* chat calls of one session that goes from the search to the generation
MaxPipelineTurns == 4

\* chat calls of one session whose history grows beyond the window of the prompt
MaxHistoryTurns == 7

\* the chat calls of a session whose images may fail to load
MaxLoadTurns == 3

\* the chat calls of a session that goes to the text specification step
MaxTextStepTurns == 3

PLAIN_REPLY == "Contame mas sobre tu producto."

SEARCH_REPLY == "Busco referencias.\n[TRIGGER_SEARCH_REFERENCES]\nQUERY: velas\nLIMIT: 3"

PIPELINE_REPLY == "[TRIGGER_GENERATE_PIPELINE]\nPROMPT: vela sobre mesa\n"

REEL_REPLY == "[TRIGGER_GENERATE_REEL]\nPROMPT: vela girando"

IMAGE_REPLY == "[TRIGGER_GENERATE_NANOBANANA]\nIMAGE_PROMPT: vela"

\* responses with several markers: the marker of the handler that runs comes last
REEL_PIPELINE_SEARCH_REPLY ==
    "[TRIGGER_GENERATE_REEL]\nPROMPT: vela\n[TRIGGER_GENERATE_PIPELINE]\n[TRIGGER_SEARCH_REFERENCES]\nQUERY: velas"

LEGACY_REEL_PIPELINE_REPLY ==
    "CALL_TOOL: GENERATE_IMAGE\n[TRIGGER_GENERATE_REEL]\nPROMPT: vela\n[TRIGGER_GENERATE_PIPELINE]"

IMAGE_REEL_REPLY ==
    "[TRIGGER_GENERATE_NANOBANANA]\nIMAGE_PROMPT: vela\n[TRIGGER_GENERATE_REEL]\nPROMPT: vela girando"

\* a reel trigger whose block holds no PROMPT: the PROMPT line stands before the marker
REEL_WITHOUT_PROMPT_REPLY == "PROMPT: vela\n[TRIGGER_GENERATE_REEL]\nCAPTION: vela girando"

\* response.text of the text model
\* blocks with a key on a line before the marker, and with a key on two lines
SEARCH_KEY_BEFORE_REPLY == "QUERY: mesas\n[TRIGGER_SEARCH_REFERENCES]\nLIMIT: 2"

SEARCH_KEY_TWICE_REPLY == "[TRIGGER_SEARCH_REFERENCES]\nQUERY: velas\nQUERY: flores"

PIPELINE_KEY_BEFORE_REPLY == "PROMPT: mesa\n[TRIGGER_GENERATE_PIPELINE]\nSKIP_TEXT: false"

PIPELINE_KEY_TWICE_REPLY ==
    "[TRIGGER_GENERATE_PIPELINE]\nREFERENCE_IMAGE: luxury.jpg\nREFERENCE_IMAGE: casual.jpg\nPROMPT: vela\nPROMPT: flor\nSKIP_TEXT: true"

REEL_KEY_TWICE_REPLY == "PROMPT: mesa\n[TRIGGER_GENERATE_REEL]\nPROMPT: vela\nPROMPT: flor"

ModelResponses ==
    {PLAIN_REPLY, SEARCH_REPLY, PIPELINE_REPLY, REEL_REPLY, IMAGE_REPLY,
     REEL_PIPELINE_SEARCH_REPLY, LEGACY_REEL_PIPELINE_REPLY, IMAGE_REEL_REPLY,
     REEL_WITHOUT_PROMPT_REPLY, SEARCH_KEY_BEFORE_REPLY, SEARCH_KEY_TWICE_REPLY,
     PIPELINE_KEY_BEFORE_REPLY, PIPELINE_KEY_TWICE_REPLY, REEL_KEY_TWICE_REPLY}

\* the messages of the user in a session
ChatMessages ==
    {"START_CONVERSATION", "RESET_CONVERSATION", "Quiero OTRO producto",
     "Busca referencias", "1", "3", "Frio y Rico", "Generar"}

\* the messages the text model answers with trigger blocks
DispatchMessages == {"Generar", "Genera todo"}

\* the answers of the text model to each message
Replies(user_message) ==
    IF user_message = "Busca referencias" THEN {SEARCH_REPLY}
    ELSE IF user_message = "Generar" THEN {PIPELINE_REPLY, REEL_REPLY, IMAGE_REPLY}
    ELSE IF user_message = "Genera todo"
    THEN {PLAIN_REPLY, REEL_PIPELINE_SEARCH_REPLY, LEGACY_REEL_PIPELINE_REPLY, IMAGE_REEL_REPLY,
          REEL_WITHOUT_PROMPT_REPLY}
    ELSE IF user_message = "Busca con detalle"
    THEN {SEARCH_KEY_BEFORE_REPLY, SEARCH_KEY_TWICE_REPLY}
    ELSE IF user_message = "Genera con detalle"
    THEN {PIPELINE_KEY_BEFORE_REPLY, PIPELINE_KEY_TWICE_REPLY}
    ELSE IF user_message = "Reel con detalle"
    THEN {REEL_KEY_TWICE_REPLY, REEL_WITHOUT_PROMPT_REPLY}
    ELSE {PLAIN_REPLY}

\* the messages of the guided workflow: search, selection, text, start over
GuidedMessages ==
    {"RESET_CONVERSATION", "Quiero OTRO producto", "Busca referencias", "1", "3",
     "SIN TEXTO", "Frio y Rico"}

\* the messages of the workflow from the search to the generation
WorkflowMessages == {"Busca referencias", "1", "Frio y Rico", "Generar"}

\* the messages up to the text specification step: a search, a selection, then
\* the text, which may be blank, a single character, a text or the refusal of text
TextStepMessages == {"Busca referencias", "1", " ", "A", "Frio y Rico", "SIN TEXTO"}

\* a URL whose download fails (_download_image_from_url returns None, 130-159)
BROKEN_URL == "http://a.co/caida.png"

\* messages without and with an image URL
LoadMessages == {"Mira esto", "Mira " \o BROKEN_URL}

\* the message main() passes for a request with an image and no message
\* (agent_direct.py 113-115)
PLACEHOLDER == "[User uploaded product image]"

\* the messages the two servers call chat with: nothing, a path, a message and a path
TransportMessages ==
    {"", PLACEHOLDER, "/uploads/vela.png", "Generar /uploads/vela.png", "Mira esto"}

\* the messages whose responses carry blocks with a key before the marker or on two lines
BlockMessages == {"Busca con detalle", "Genera con detalle", "Reel con detalle"}

\* the messages of the workflow from the search to a generation whose block
\* names a reference image and SKIP_TEXT; the text is blank or holds two pieces
PipelineMessages == {"Busca referencias", "1", " ", "Frio y Rico", "Genera con detalle"}

\* every message a chat call is explored with
UserMessages ==
    ChatMessages \cup DispatchMessages \cup GuidedMessages \cup WorkflowMessages
    \cup TextStepMessages \cup LoadMessages \cup TransportMessages \cup BlockMessages
    \cup PipelineMessages

ImagePaths == {None, Some("/uploads/vela.png")}

\* the image sources _load_image can load
LoadableSources == {"/uploads/vela.png"}

\* the image paths of the calls of a session whose images may fail to load:
\* none, a file that can be read, a file that cannot (_load_local_image
\* returns None, 106-127)
LoadImagePaths == {None, Some("/uploads/vela.png"), Some("/uploads/borrada.png")}

\* a reference of the backend's library; design_guidelines is the JSON value of
\* that key: "absent", "null", "{}" (no typography) or "typography"
Reference(filename, design_guidelines) ==
    [filename |-> filename, design_guidelines |-> design_guidelines]

\* two result lists of the reference library
ListA ==
    <<Reference("minimal.jpg", "typography"), Reference("rustic.jpg", "absent"),
      Reference("bold.jpg", "null")>>

ListB == <<Reference("luxury.jpg", "{}"), Reference("casual.jpg", "typography")>>

\* the answer of POST /search-references: raised is an exception of the call
\* (transport error, timeout, HTTP error status, body that is no JSON)
SearchOutcome(raised, status, results) == [raised |-> raised, status |-> status, results |-> results]

SearchOutcomes ==
    {SearchOutcome(TRUE, "", <<>>),
     SearchOutcome(FALSE, "success", ListA),
     SearchOutcome(FALSE, "success", ListB),
     SearchOutcome(FALSE, "success", <<>>),
     SearchOutcome(FALSE, "error", <<>>)}

FINAL_IMAGE == "/generated/final.png"

\* the outcome of the pipeline handler's try block: opened is whether the
\* product file could be opened, raised an exception of the call (transport
\* error, timeout, HTTP error status, body that is no JSON), success and
\* finalImagePath the fields of the answer, ranked whether the ranking call
\* went through
PipelineOutcome(opened, raised, success, finalImagePath, ranked) ==
    [opened |-> opened, raised |-> raised, success |-> success,
     finalImagePath |-> finalImagePath, ranked |-> ranked]

PipelineOutcomes ==
    {PipelineOutcome(FALSE, FALSE, FALSE, None, FALSE),
     PipelineOutcome(TRUE, TRUE, FALSE, None, FALSE),
     PipelineOutcome(TRUE, FALSE, FALSE, None, FALSE),
     PipelineOutcome(TRUE, FALSE, TRUE, None, FALSE),
     PipelineOutcome(TRUE, FALSE, TRUE, Some(FINAL_IMAGE), TRUE),
     PipelineOutcome(TRUE, FALSE, TRUE, Some(FINAL_IMAGE), FALSE)}

\* the outcome of the reel handler's try block: exists is whether the image
\* file exists, opened whether it could be opened, raised an exception of the
\* call, http_error a status code of 400 or more, status and postId the fields
\* of the answer (a body that is no JSON counts as status "error")
ReelOutcome(exists, opened, raised, http_error, status, postId) ==
    [exists |-> exists, opened |-> opened, raised |-> raised, http_error |-> http_error,
     status |-> status, postId |-> postId]

ReelOutcomes ==
    {ReelOutcome(TRUE, FALSE, FALSE, FALSE, "", None),
     ReelOutcome(TRUE, TRUE, TRUE, FALSE, "", None),
     ReelOutcome(TRUE, TRUE, FALSE, TRUE, "error", None),
     ReelOutcome(TRUE, TRUE, FALSE, TRUE, "accepted", Some("post-1")),
     ReelOutcome(TRUE, TRUE, FALSE, FALSE, "error", None),
     ReelOutcome(TRUE, TRUE, FALSE, FALSE, "accepted", Some("post-1")),
     ReelOutcome(FALSE, FALSE, FALSE, FALSE, "accepted", Some("post-1"))}

\* the outcome of the image model: "bytes", "no_bytes" or "raised"
ImageOutcomes == {"bytes", "no_bytes", "raised"}

(***************************************************************************)
(* chat: the reset rules (agent.py 246-293)                                *)
(***************************************************************************)
\* if image_path: self.product_image_path = image_path
StoreImagePath(a, image_path) ==
    IF image_path # None /\ Get(image_path) # ""
    THEN [a EXCEPT !.product_image_path = image_path]
    ELSE a

\* a clearing that forgets to clear the product image
ClearStateKeepingImage(a) ==
    [a EXCEPT !.history = <<>>,
              !.selected_reference = None,
              !.text_content = None,
              !.awaiting_text_input = FALSE,
              !.design_guidelines = None,
              !.product_analysis = None]

\* a clearing that keeps the history
ClearStateKeepingHistory(a) ==
    [a EXCEPT !.selected_reference = None,
              !.product_image_path = None,
              !.text_content = None,
              !.awaiting_text_input = FALSE,
              !.design_guidelines = None,
              !.product_analysis = None]

\* "Clear all state to start fresh" (253-259 and 279-285)
ClearState(a) ==
    [a EXCEPT !.history = <<>>,
              !.selected_reference = None,
              !.product_image_path = None,
              !.text_content = None,
              !.awaiting_text_input = FALSE,
              !.design_guidelines = None,
              !.product_analysis = None]

\* a chat that knows no reset command
NoResetCommand(user_message) == FALSE

IsResetCommand(user_message) == user_message = "RESET_CONVERSATION"

start_over_keywords ==
    {"otro producto", "nueva imagen", "nuevo producto", "empezar de nuevo",
     "start over", "different product", "another product", "new product",
     "quiero crear otra", "vamos a crear una nueva", "crear algo con otro",
     "imagen de producto nueva", "producto nueva"}

\* any(keyword in user_message.lower() for keyword in start_over_keywords)
IsStartOver(user_message) ==
    \E keyword \in start_over_keywords : Contains(Lower(user_message), keyword)

\* rule 1 by message, computed once: "reset_command", "start_over" or "none"
ResetRule ==
    [m \in UserMessages |->
        IF IsResetCommand(m) THEN "reset_command"
        ELSE IF IsStartOver(m) THEN "start_over"
        ELSE "none"]

\* the reset marker appended to the history (289)
ResetMarker == Turn("assistant", RESET_MSG, None, TRUE, <<>>)

\* a reset command that leaves a reset marker in the history
ResetCommandLeavingMarker(a, image_path) ==
    [ClearState(StoreImagePath(a, image_path)) EXCEPT !.history = <<ResetMarker>>]

\* the agent after a RESET_CONVERSATION turn (246-265)
AfterResetCommand(a, image_path) == ClearState(StoreImagePath(a, image_path))

\* a start-over that appends the reset marker to the history it found
StartOverKeepingHistory(a, image_path) ==
    [ClearState(StoreImagePath(a, image_path)) EXCEPT !.history = Append(a.history, ResetMarker)]

\* the agent after a start-over turn (246-249, 276-293)
AfterStartOver(a, image_path) ==
    LET cleared == ClearState(StoreImagePath(a, image_path))
    IN  [cleared EXCEPT !.history = Append(cleared.history, ResetMarker)]

(***************************************************************************)
(* chat: the user turn and the call of the text model (agent.py 295-367)   *)
(***************************************************************************)
\* START_CONVERSATION is replaced by "Hola" (296-300)
EffectiveMessage(user_message) ==
    IF user_message = "START_CONVERSATION" THEN "Hola" ELSE user_message

\* the agent when the text model is called: the image path is stored and the
\* user turn appended (246-248, 302-310)
\* clean_text and image_source by message, computed once (302-303)
Extracted == [m \in UserMessages |-> extract_image_url(EffectiveMessage(m))]

AfterUserTurn(a, user_message, image_path) ==
    LET b == StoreImagePath(a, image_path)
        msg == EffectiveMessage(user_message)
        ex == Extracted[user_message]
    IN  [b EXCEPT !.history =
            Append(@, UserTurn(IF ex.clean_text # "" THEN ex.clean_text ELSE msg,
                               ex.image_source))]

\* image_to_analyze = image_source or self.product_image_path (343)
ImageToAnalyze(a, user_message) ==
    LET ex == Extracted[user_message]
    IN  IF ex.image_source # None THEN ex.image_source ELSE a.product_image_path

\* _load_image returns a Part for the source (106-171)
Loads(source) == source \in LoadableSources

\* an external call made during a turn
LoadImageCall(source, ok) == [api |-> "load_image", source |-> source, ok |-> ok]

\* conversation_parts: the history[-12:] rendered, one line per turn (312-319)
HistoryWindow == 12

RenderTurn(m) ==
    (IF m.role = "user" THEN "USER" ELSE "ASSISTANT") \o ": " \o m.content
    \o (IF m.image_url # None THEN " [Image: " \o Get(m.image_url) \o "]" ELSE "")

\* a prompt built of the first turns of the history
ConversationFromStart(history) ==
    LET n == IF Len(history) > HistoryWindow THEN HistoryWindow ELSE Len(history)
    IN  [i \in 1..n |-> RenderTurn(history[i])]

Conversation(history) ==
    LET n == Len(history)
        first == IF n > HistoryWindow THEN n - HistoryWindow + 1 ELSE 1
    IN  [i \in 1..(n - first + 1) |-> RenderTurn(history[first + i - 1])]

\* a call of the text model with the conversation of the prompt (321-339):
\* response is response.text, None when the call raised
TextModelCall(conversation_parts, with_image, response) ==
    [api |-> "generate_content", model |-> "text_model",
     conversation_parts |-> conversation_parts, with_image |-> with_image,
     response |-> response]

\* the calls up to and including the call of the text model (312-364): the
\* image is attached only if it could be loaded
TextModelCalls(a, user_message, response) ==
    LET image == ImageToAnalyze(a, user_message)
    IN  IF image # None
        THEN <<LoadImageCall(Get(image), Loads(Get(image))),
               TextModelCall(Conversation(a.history), Loads(Get(image)), response)>>
        ELSE <<TextModelCall(Conversation(a.history), FALSE, response)>>

(***************************************************************************)
(* chat: reference selection (agent.py 369-474)                            *)
(***************************************************************************)
\* user_message.strip().isdigit() and 1 <= int(user_message.strip()) <= 3
IsSelectionNumber(user_message) ==
    LET s == Strip(EffectiveMessage(user_message))
    IN  IsDigit(s) /\ 1 <= ToInt(s) /\ ToInt(s) <= 3

SelectedNum(user_message) == ToInt(Strip(EffectiveMessage(user_message)))

RECURSIVE ScanHistory(_, _, _)
\* for msg in reversed(self.history), from index i down: stop at a reset point;
\* at a turn with references, take refs[selected_num - 1] if it exists, else go on
ScanHistory(history, i, selected_num) ==
    IF i = 0 THEN None
    ELSE IF history[i].is_reset THEN None
    ELSE IF history[i].references # <<>> /\ selected_num <= Len(history[i].references)
    THEN Some(history[i].references[selected_num])
    ELSE ScanHistory(history, i - 1, selected_num)

\* selected_num by message, computed once: 0 when the message is no selection
SelectionNumber ==
    [m \in UserMessages |-> IF IsSelectionNumber(m) THEN SelectedNum(m) ELSE 0]

\* the reference a selection turn binds, None if the turn is no selection
FindReference(history, user_message) ==
    IF SelectionNumber[user_message] # 0
    THEN ScanHistory(history, Len(history), SelectionNumber[user_message])
    ELSE None

\* self.selected_reference.get('design_guidelines', {}) (385)
GuidelinesOf(ref) ==
    IF ref.design_guidelines = "null" THEN None
    ELSE IF ref.design_guidelines = "absent" THEN Some("{}")
    ELSE Some(ref.design_guidelines)

\* _analyze_product_for_text_context (717-784): the parsed answer of the model,
\* or the safe defaults when the image does not load, the call fails or the
\* answer is no JSON
ANALYSIS == "analysis"

SAFE_DEFAULTS == "defaults"

\* the outcomes of the analysis of the product image
AnalysisOutcomes(a) ==
    IF a.product_image_path = None THEN {"skipped"}
    ELSE IF Loads(Get(a.product_image_path)) THEN {"ok", "call_failed", "bad_json"}
    ELSE {"load_failed"}

AnalysisValue(outcome) == IF outcome = "ok" THEN Some(ANALYSIS) ELSE Some(SAFE_DEFAULTS)

AnalysisCalls(a, outcome) ==
    IF outcome = "skipped" THEN <<>>
    ELSE IF outcome = "load_failed"
    THEN <<LoadImageCall(Get(a.product_image_path), FALSE)>>
    ELSE <<LoadImageCall(Get(a.product_image_path), TRUE),
           [api |-> "generate_content", model |-> "text_model", with_image |-> TRUE,
            response |-> IF outcome = "call_failed" THEN None ELSE Some(outcome)]>>

\* text_question: built from the typography of the guidelines, generic without (400-470)
TextQuestion(design_guidelines) ==
    IF design_guidelines = Some("typography") THEN TEXT_QUESTION_DYNAMIC ELSE TEXT_QUESTION_GENERIC

\* a selection that stores the guidelines and the analysis and binds no reference
SelectionWithoutReference(a, ref, analysis) ==
    LET guidelines == GuidelinesOf(ref)
    IN  [a EXCEPT !.design_guidelines = guidelines,
                  !.product_analysis =
                      IF a.product_image_path # None THEN AnalysisValue(analysis) ELSE @,
                  !.awaiting_text_input = TRUE,
                  !.history = Append(@, AssistantTurn(TextQuestion(guidelines)))]

\* the agent after the selection of ref (381-473); a is the agent after the user turn
AfterSelection(a, ref, analysis) ==
    LET guidelines == GuidelinesOf(ref)
    IN  [a EXCEPT !.selected_reference = Some(ref),
                  !.design_guidelines = guidelines,
                  !.product_analysis =
                      IF a.product_image_path # None THEN AnalysisValue(analysis) ELSE @,
                  !.awaiting_text_input = TRUE,
                  !.history = Append(@, AssistantTurn(TextQuestion(guidelines)))]

(***************************************************************************)
(* chat: the text specification step (agent.py 476-519)                    *)
(***************************************************************************)
no_text_keywords ==
    {"sin texto", "no texto", "sin text", "no text", "imagen sola", "ninguno", "nada", "skip"}

\* any(keyword in user_message.lower().strip() for keyword in no_text_keywords)
WantsNoText(user_message) ==
    \E keyword \in no_text_keywords :
        Contains(Strip(Lower(EffectiveMessage(user_message))), keyword)

\* text_preview (501-510)
TextPreview(text_content) ==
    LET parts ==
            (IF text_content.headline # None /\ Get(text_content.headline) # ""
             THEN <<"- Titulo: '" \o Get(text_content.headline) \o "'">> ELSE <<>>)
            \o (IF text_content.subheadline # None /\ Get(text_content.subheadline) # ""
                THEN <<"- Oferta/Subtitulo: '" \o Get(text_content.subheadline) \o "'">> ELSE <<>>)
            \o (IF text_content.cta # None /\ Get(text_content.cta) # ""
                THEN <<"- Llamado a accion: '" \o Get(text_content.cta) \o "'">> ELSE <<>>)
    IN  IF parts # <<>> THEN Join(parts, "\n") ELSE "- Texto personalizado"

\* ready_msg of the step
ReadyMessage(user_message) ==
    IF WantsNoText(user_message) THEN READY_NO_TEXT
    ELSE READY_WITH_TEXT \o "\n" \o TextPreview(parse_text_content(EffectiveMessage(user_message)))

\* the step by message, computed once
TextSpec ==
    [m \in UserMessages |->
        [wants_no_text |-> WantsNoText(m),
         text_content |-> IF WantsNoText(m) THEN None
                          ELSE Some(parse_text_content(EffectiveMessage(m))),
         ready_msg |-> ReadyMessage(m)]]

\* a text specification step that drops the selected reference
TextSpecDroppingReference(a, user_message) ==
    [a EXCEPT !.awaiting_text_input = FALSE, !.selected_reference = None]

\* the agent after the text specification step (478-519); a is the agent after the user turn
AfterTextSpec(a, user_message) ==
    [a EXCEPT !.awaiting_text_input = FALSE,
              !.text_content = TextSpec[user_message].text_content,
              !.history = Append(@, AssistantTurn(TextSpec[user_message].ready_msg))]

(***************************************************************************)
(* Trigger blocks: helpers of the handlers                                 *)
(***************************************************************************)
SEARCH_MARKER == "[TRIGGER_SEARCH_REFERENCES]"

PIPELINE_MARKER == "[TRIGGER_GENERATE_PIPELINE]"

REEL_MARKER == "[TRIGGER_GENERATE_REEL]"

NANOBANANA_MARKER == "[TRIGGER_GENERATE_NANOBANANA]"

LEGACY_MARKER == "CALL_TOOL: GENERATE_IMAGE"

\* text.split(marker)[0]
TextBefore(text, marker) ==
    LET i == FindFrom(text, marker, 1)
    IN  IF i = 0 THEN text ELSE SubSeq(text, 1, i - 1)

\* text.split(marker, 1)[1]
TextAfter(text, marker) ==
    LET i == FindFrom(text, marker, 1)
    IN  SubSeq(text, i + Len(marker), Len(text))

\* line_stripped[len(key):].strip()
ValueOf(line_stripped, key) == Strip(SubSeq(line_stripped, Len(key) + 1, Len(line_stripped)))

\* [line.strip() for line in text.splitlines()]
StrippedLines(text) ==
    LET lines == SplitLines(text)
    IN  [i \in 1..Len(lines) |-> Strip(lines[i])]

\* response_text_stripped by response, computed once (367)
Stripped == [r \in ModelResponses |-> Strip(r)]

\* the texts the handlers read: response.text and response.text.strip()
ResponseTexts == ModelResponses \cup {Stripped[r] : r \in ModelResponses}

\* the stripped lines of each text, computed once
Lines == [t \in ResponseTexts |-> StrippedLines(t)]

\* int(v), or the default when int raises ValueError
IntOr(v, default) ==
    IF IsDigit(v) THEN ToInt(v)
    ELSE IF Len(v) > 1 /\ Head(v) = "-" /\ IsDigit(Tail(v)) THEN 0 - ToInt(Tail(v))
    ELSE IF Len(v) > 1 /\ Head(v) = "+" /\ IsDigit(Tail(v)) THEN ToInt(Tail(v))
    ELSE default

(***************************************************************************)
(* _handle_search_references (agent.py 786-881)                            *)
(***************************************************************************)
DEFAULT_QUERY == "product photography professional"

DEFAULT_LIMIT == 3

RECURSIVE SearchParams(_, _, _)
\* the loop over the lines (794-802): a later QUERY or LIMIT line overwrites an earlier one
SearchParams(lines, query, limit) ==
    IF lines = <<>> THEN [query |-> query, limit |-> limit]
    ELSE IF StartsWith(Head(lines), "QUERY:")
    THEN SearchParams(Tail(lines), ValueOf(Head(lines), "QUERY:"), limit)
    ELSE IF StartsWith(Head(lines), "LIMIT:")
    THEN SearchParams(Tail(lines), query, IntOr(ValueOf(Head(lines), "LIMIT:"), DEFAULT_LIMIT))
    ELSE SearchParams(Tail(lines), query, limit)

SearchCall(response_text) ==
    LET params == SearchParams(Lines[response_text], "", DEFAULT_LIMIT)
    IN  [api |-> "search-references",
         query |-> IF params.query = "" THEN DEFAULT_QUERY ELSE params.query,
         limit |-> params.limit]

SEARCH_LEAD_IN == "Encontre estas referencias que podrian inspirar tu imagen:"

SEARCH_QUESTION == "Cual te gusta mas? (1, 2, 3, o 'ninguna' si queres que genere sin referencia)"

SEARCH_EMPTY == "No encontre referencias exactas. Queres que genere la imagen segun tu descripcion?"

SEARCH_FAILED == "Tuve un problema buscando referencias. Seguimos sin referencias visuales?"

\* the entry of one reference: a reference with no industry, aesthetic, mood
\* or tags is described by its filename (831-852)
RECURSIVE ReferenceEntries(_, _)
ReferenceEntries(references, i) ==
    IF i > Len(references) THEN <<>>
    ELSE <<Char("123456789", i) \o ". " \o references[i].filename \o "\n   Estilo: Sin estilo">>
         \o ReferenceEntries(references, i + 1)

\* full_message (825-857)
SearchMessage(response_text, references) ==
    LET before == Strip(TextBefore(response_text, SEARCH_MARKER))
        lead == IF before = "" THEN SEARCH_LEAD_IN ELSE before
    IN  Join(<<lead, "">> \o ReferenceEntries(references, 1) \o <<"", SEARCH_QUESTION>>, "\n")

\* the request and its answer (812-820): raised is an exception of the call,
\* status and results the fields of the answer
SearchExchange(response_text, outcome) ==
    SearchCall(response_text)
    @@ [raised |-> outcome.raised, status |-> outcome.status, results |-> outcome.results]

\* an offer that does not attach the references to the history turn
SearchOfferWithoutList(a, response_text, outcome) ==
    [agent |-> [a EXCEPT !.history =
                   Append(@, AssistantTurn(SearchMessage(response_text, outcome.results)))],
     result |-> Result("reference_options", SearchMessage(response_text, outcome.results),
                       None, outcome.results, None),
     calls |-> <<SearchExchange(response_text, outcome)>>]

\* the references are offered (820-870): the history turn carries the list that is returned
SearchOffer(a, response_text, outcome) ==
    LET full_message == SearchMessage(response_text, outcome.results)
    IN  [agent |-> [a EXCEPT !.history =
                       Append(@, Turn("assistant", full_message, None, FALSE, outcome.results))],
         result |-> Result("reference_options", full_message, None, outcome.results, None),
         calls |-> <<SearchExchange(response_text, outcome)>>]

\* a is the agent after the user turn; returns the agent, the result and the calls
handle_search_references(a, response_text, outcome) ==
    IF outcome.raised
    THEN [agent |-> [a EXCEPT !.history = Append(@, AssistantTurn(SEARCH_FAILED))],
          result |-> TextResult(SEARCH_FAILED),
          calls |-> <<SearchExchange(response_text, outcome)>>]
    ELSE IF outcome.status = "success" /\ outcome.results # <<>>
    THEN SearchOffer(a, response_text, outcome)
    ELSE [agent |-> [a EXCEPT !.history = Append(@, AssistantTurn(SEARCH_EMPTY))],
          result |-> TextResult(SEARCH_EMPTY),
          calls |-> <<SearchExchange(response_text, outcome)>>]

(***************************************************************************)
(* _handle_generate_pipeline (agent.py 883-1032)                           *)
(***************************************************************************)
NO_PRODUCT_IMAGE == "No product image available for generation"

DEFAULT_PIPELINE_PROMPT == "Professional product photography with elegant composition"

PIPELINE_FAILED == "La generacion de imagen fallo. Intentamos de nuevo?"

PIPELINE_ERROR == "Tuve un problema generando la imagen. Intentamos de nuevo?"

PIPELINE_LEAD_IN == "Listo! Aca esta tu imagen"

RECURSIVE PipelineParams(_, _, _, _)
\* the loop over the lines (898-908): REFERENCE_IMAGE is read only while no
\* reference image is set; a later PROMPT or SKIP_TEXT line overwrites an earlier one
PipelineParams(lines, reference_image, prompt, skip_text) ==
    IF lines = <<>>
    THEN [reference_image |-> reference_image, prompt |-> prompt, skip_text |-> skip_text]
    ELSE IF StartsWith(Head(lines), "REFERENCE_IMAGE:") /\ reference_image = ""
    THEN PipelineParams(Tail(lines), ValueOf(Head(lines), "REFERENCE_IMAGE:"), prompt, skip_text)
    ELSE IF StartsWith(Head(lines), "PROMPT:")
    THEN PipelineParams(Tail(lines), reference_image, ValueOf(Head(lines), "PROMPT:"), skip_text)
    ELSE IF StartsWith(Head(lines), "SKIP_TEXT:")
    THEN PipelineParams(Tail(lines), reference_image, prompt, ValueOf(Head(lines), "SKIP_TEXT:"))
    ELSE PipelineParams(Tail(lines), reference_image, prompt, skip_text)

\* a handler that reads REFERENCE_IMAGE of the block before the selected reference
PipelineFieldsBlockFirst(a, response_text) ==
    LET stored == IF a.selected_reference # None THEN Get(a.selected_reference).filename ELSE ""
        p == PipelineParams(Lines[response_text], "", "", "true")
    IN  [p EXCEPT !.prompt = IF @ = "" THEN DEFAULT_PIPELINE_PROMPT ELSE @,
                  !.reference_image = IF @ = "" THEN stored ELSE @]

\* reference_image, prompt and skip_text of the handler (888-908, 920-921)
PipelineFields(a, response_text) ==
    LET stored == IF a.selected_reference # None THEN Get(a.selected_reference).filename ELSE ""
        p == PipelineParams(Lines[response_text], stored, "", "true")
    IN  [p EXCEPT !.prompt = IF @ = "" THEN DEFAULT_PIPELINE_PROMPT ELSE @]

\* text_array: headline, subheadline, cta, the empty ones left out (946-952)
TextArray(text_content) ==
    (IF text_content.headline # None /\ Get(text_content.headline) # ""
     THEN <<Get(text_content.headline)>> ELSE <<>>)
    \o (IF text_content.subheadline # None /\ Get(text_content.subheadline) # ""
        THEN <<Get(text_content.subheadline)>> ELSE <<>>)
    \o (IF text_content.cta # None /\ Get(text_content.cta) # ""
        THEN <<Get(text_content.cta)>> ELSE <<>>)

\* has_text = self.text_content is not None and len(self.text_content) > 0 (928)
HasText(a) ==
    /\ a.text_content # None
    /\ \/ Get(a.text_content).headline # None
       \/ Get(a.text_content).subheadline # None
       \/ Get(a.text_content).cta # None

\* the form data of POST /pipeline (933-968); a field the form does not hold is None
PipelineCall(a, response_text) ==
    LET f == PipelineFields(a, response_text)
    IN  [api |-> "pipeline",
         productImage |-> Get(a.product_image_path),
         textPrompt |-> f.prompt,
         referenceImage |-> f.reference_image,
         skipText |-> IF HasText(a) THEN "false" ELSE "true",
         userText |-> IF HasText(a) THEN Some(TextArray(Get(a.text_content))) ELSE None,
         typographyStyle |->
             IF HasText(a) /\ a.design_guidelines = Some("typography")
             THEN Some("typography") ELSE None,
         productAnalysis |-> IF HasText(a) THEN a.product_analysis ELSE None]

\* the request and its answer (973-983): raised is an exception of the call,
\* success and finalImagePath the fields of the answer
PipelineExchange(a, response_text, outcome) ==
    PipelineCall(a, response_text)
    @@ [raised |-> outcome.raised, success |-> outcome.success,
        finalImagePath |-> outcome.finalImagePath]

\* os.path.basename
Basename(path) ==
    LET slashes == {i \in 1..Len(path) : Char(path, i) = "/"}
    IN  IF slashes = {} THEN path
        ELSE SubSeq(path, (CHOOSE i \in slashes : \A j \in slashes : j <= i) + 1, Len(path))

RankingCall(reference_image, ok) ==
    [api |-> "increment-reference-ranking", referenceFilename |-> Basename(reference_image), ok |-> ok]

\* the handler says text: it is appended to the history and returned as type text
PipelineSays(a, text, made) ==
    [agent |-> [a EXCEPT !.history = Append(@, AssistantTurn(text))],
     result |-> TextResult(text),
     calls |-> made]

\* a refusal that lets the exception of open(None) reach the caller
PipelineRefusalRaising(a) == [agent |-> a, result |-> Raised("TypeError"), calls |-> <<>>]

\* no product image is stored (910-914)
PipelineRefusal(a) == PipelineSays(a, NO_PRODUCT_IMAGE, <<>>)

\* a handler without the except clause: the exception reaches the caller
PipelineErrorPropagating(a, made) == [agent |-> a, result |-> Raised("pipeline"), calls |-> made]

\* the except clause of the handler (1027-1032); made are the calls made before the exception
PipelineError(a, made) == PipelineSays(a, PIPELINE_ERROR, made)

\* a success path whose ranking call is not guarded: its failure ends in the except clause
PipelineSuccessLostOnRanking(a, response_text, outcome) ==
    LET f == PipelineFields(a, response_text)
        lead == Strip(TextBefore(response_text, PIPELINE_MARKER))
    IN  IF f.reference_image # "" /\ ~outcome.ranked
        THEN PipelineSays(a, PIPELINE_ERROR,
                          <<PipelineExchange(a, response_text, outcome), RankingCall(f.reference_image, FALSE)>>)
        ELSE [agent |-> [a EXCEPT !.history =
                           Append(@, AssistantTurn((IF lead = "" THEN PIPELINE_LEAD_IN ELSE lead)
                                                   \o "\n[Image generated via pipeline]"))],
              result |-> Result("image", IF lead = "" THEN PIPELINE_LEAD_IN ELSE lead,
                                outcome.finalImagePath, <<>>, None),
              calls |-> <<PipelineExchange(a, response_text, outcome)>>
                        \o (IF f.reference_image # ""
                            THEN <<RankingCall(f.reference_image, TRUE)>> ELSE <<>>)]

\* the answer has success and finalImagePath (988-1025): the ranking of the
\* reference is incremented, a failure of that call is swallowed (993-1004)
PipelineSuccess(a, response_text, outcome) ==
    LET f == PipelineFields(a, response_text)
        before == Strip(TextBefore(response_text, PIPELINE_MARKER))
        lead == IF before = "" THEN PIPELINE_LEAD_IN ELSE before
    IN  [agent |-> [a EXCEPT !.history =
                       Append(@, AssistantTurn(lead \o "\n[Image generated via pipeline]"))],
         result |-> Result("image", lead, outcome.finalImagePath, <<>>, None),
         calls |-> <<PipelineExchange(a, response_text, outcome)>>
                   \o (IF f.reference_image # ""
                       THEN <<RankingCall(f.reference_image, outcome.ranked)>>
                       ELSE <<>>)]

\* a handler that increments the ranking before it looks at the answer
RankingBeforeAnswer(a, response_text, outcome) ==
    LET f == PipelineFields(a, response_text)
        ranking == IF f.reference_image # ""
                   THEN <<RankingCall(f.reference_image, outcome.ranked)>> ELSE <<>>
    IN  IF a.product_image_path = None \/ a.product_image_path = Some("")
        THEN PipelineRefusal(a)
        ELSE IF ~outcome.opened
        THEN PipelineError(a, <<>>)
        ELSE IF outcome.raised
        THEN PipelineError(a, <<PipelineExchange(a, response_text, outcome)>>)
        ELSE IF ~outcome.success \/ outcome.finalImagePath = None \/ outcome.finalImagePath = Some("")
        THEN PipelineSays(a, PIPELINE_FAILED,
                          <<PipelineExchange(a, response_text, outcome)>> \o ranking)
        ELSE PipelineSuccess(a, response_text, outcome)

\* a is the agent after the user turn; returns the agent, the result and the calls
handle_generate_pipeline(a, response_text, outcome) ==
    IF a.product_image_path = None \/ a.product_image_path = Some("")
    THEN PipelineRefusal(a)
    ELSE IF ~outcome.opened
    THEN PipelineError(a, <<>>)
    ELSE IF outcome.raised
    THEN PipelineError(a, <<PipelineExchange(a, response_text, outcome)>>)
    ELSE IF ~outcome.success \/ outcome.finalImagePath = None \/ outcome.finalImagePath = Some("")
    THEN PipelineSays(a, PIPELINE_FAILED, <<PipelineExchange(a, response_text, outcome)>>)
    ELSE PipelineSuccess(a, response_text, outcome)

(***************************************************************************)
(* _handle_generate_reel (agent.py 628-715)                                *)
(***************************************************************************)
REEL_NO_PROMPT == "Falto el PROMPT para generar el reel."

REEL_REJECTED == "Hubo un error al iniciar el reel"

REEL_ERROR == "Error iniciando el reel"

REEL_STARTED == "Listo. Estoy generando tu reel ahora."

RECURSIVE ReelParams(_, _, _, _)
\* the loop over the non-empty lines after the marker (640-654): a later line
\* of a key overwrites an earlier one
ReelParams(lines, product_image, prompt, caption) ==
    IF lines = <<>>
    THEN [product_image |-> product_image, prompt |-> prompt, caption |-> caption]
    ELSE IF StartsWith(Head(lines), "PRODUCT_IMAGE:")
    THEN LET v == ValueOf(Head(lines), "PRODUCT_IMAGE:")
         IN  ReelParams(Tail(lines), IF v # "" THEN Some(v) ELSE None, prompt, caption)
    ELSE IF StartsWith(Head(lines), "PROMPT:")
    THEN ReelParams(Tail(lines), product_image, Some(ValueOf(Head(lines), "PROMPT:")), caption)
    ELSE IF StartsWith(Head(lines), "CAPTION:")
    THEN ReelParams(Tail(lines), product_image, prompt, Some(ValueOf(Head(lines), "CAPTION:")))
    ELSE ReelParams(Tail(lines), product_image, prompt, caption)

\* the non-empty stripped lines after the marker, by text, computed once (637-641)
ReelBlock ==
    [t \in ResponseTexts |->
        IF Contains(t, REEL_MARKER)
        THEN SelectSeq(StrippedLines(TextAfter(t, REEL_MARKER)), LAMBDA ln : ln # "")
        ELSE <<>>]

ReelFields(response_text) == ReelParams(ReelBlock[response_text], None, None, None)

\* image_path = product_image or self.product_image_path (683)
ReelImage(a, response_text) ==
    LET f == ReelFields(response_text)
    IN  IF f.product_image # None THEN f.product_image ELSE a.product_image_path

\* the multipart request of POST /video/generate (667-698): the product file
\* when it exists, the placeholder field otherwise
ReelCall(a, response_text, exists) ==
    LET f == ReelFields(response_text)
        image == ReelImage(a, response_text)
    IN  [api |-> "video/generate",
         prompt |-> Get(f.prompt),
         caption |-> IF f.caption # None THEN Get(f.caption) ELSE "",
         files |-> IF image # None /\ Get(image) # "" /\ exists
                   THEN [productImage |-> Get(image)]
                   ELSE [_forceMultipart |-> ""]]

\* the request and its answer (692-704)
ReelExchange(a, response_text, outcome) ==
    ReelCall(a, response_text, outcome.exists)
    @@ [raised |-> outcome.raised, http_error |-> outcome.http_error, status |-> outcome.status]

\* the image file of the request exists and cannot be opened (684-686)
ReelFileUnreadable(a, response_text, outcome) ==
    LET image == ReelImage(a, response_text)
    IN  image # None /\ Get(image) # "" /\ outcome.exists /\ ~outcome.opened

\* an acceptance that does not look at the HTTP status
ReelAcceptedWhateverStatus(outcome) == outcome.status = "accepted"

\* not (resp.status_code >= 400 or payload.get("status") != "accepted") (704)
ReelAccepted(outcome) == ~outcome.http_error /\ outcome.status = "accepted"

\* a is the agent after the user turn; returns the agent, the result and the calls
handle_generate_reel(a, response_text, outcome) ==
    LET f == ReelFields(response_text)
    IN  IF f.prompt = None \/ f.prompt = Some("")
        THEN [agent |-> a, result |-> TextResult(REEL_NO_PROMPT), calls |-> <<>>]
        ELSE IF ReelFileUnreadable(a, response_text, outcome)
        THEN [agent |-> a, result |-> TextResult(REEL_ERROR), calls |-> <<>>]
        ELSE IF outcome.raised
        THEN [agent |-> a, result |-> TextResult(REEL_ERROR),
              calls |-> <<ReelExchange(a, response_text, outcome)>>]
        ELSE IF ~ReelAccepted(outcome)
        THEN [agent |-> a, result |-> TextResult(REEL_REJECTED),
              calls |-> <<ReelExchange(a, response_text, outcome)>>]
        ELSE [agent |-> a,
              result |-> Result("text", REEL_STARTED, None, <<>>, outcome.postId),
              calls |-> <<ReelExchange(a, response_text, outcome)>>]

(***************************************************************************)
(* chat: legacy direct image generation (agent.py 533-576)                 *)
(***************************************************************************)
IMAGE_FAILED == "Image generation failed: no image bytes returned."

\* datetime.now().strftime("%Y%m%d_%H%M%S.png")
TIMESTAMP_FILE == "20250107_120000.png"

RECURSIVE FirstPromptLine(_)
\* the first IMAGE_PROMPT: or PROMPT: line of the response (537-544)
FirstPromptLine(lines) ==
    IF lines = <<>> THEN ""
    ELSE IF StartsWith(Head(lines), "IMAGE_PROMPT:") THEN ValueOf(Head(lines), "IMAGE_PROMPT:")
    ELSE IF StartsWith(Head(lines), "PROMPT:") THEN ValueOf(Head(lines), "PROMPT:")
    ELSE FirstPromptLine(Tail(lines))

ImageModelCall(response_text, user_message) ==
    LET image_prompt == FirstPromptLine(Lines[response_text])
    IN  [api |-> "generate_content", model |-> "image_model",
         prompt |-> IF image_prompt = ""
                    THEN "Professional product photography: " \o EffectiveMessage(user_message)
                    ELSE image_prompt]

\* a is the agent after the user turn; returns the agent, the result and the calls
handle_generate_image(a, response_text, user_message, outcome) ==
    LET call == ImageModelCall(response_text, user_message)
        before == Strip(TextBefore(Stripped[response_text], NANOBANANA_MARKER))
        lead == IF before = "" THEN "Generated image saved to " \o TIMESTAMP_FILE ELSE before
    IN  IF outcome = "raised"
        THEN [agent |-> a, result |-> Raised("image_model"), calls |-> <<call>>]
        ELSE IF outcome = "no_bytes"
        THEN [agent |-> [a EXCEPT !.history = Append(@, AssistantTurn(IMAGE_FAILED))],
              result |-> TextResult(IMAGE_FAILED),
              calls |-> <<call>>]
        ELSE [agent |-> [a EXCEPT !.history =
                            Append(@, AssistantTurn(lead \o "\n[Image generated: " \o TIMESTAMP_FILE \o "]"))],
              result |-> Result("image", lead, Some(TIMESTAMP_FILE), <<>>, None),
              calls |-> <<call>>]

(***************************************************************************)
(* chat: the dispatch on the markers of the response (agent.py 521-580)    *)
(***************************************************************************)
\* the position of the first of the markers in s, 0 when s holds none
FirstOf(s, markers) == MinOr({FindFrom(s, m, 1) : m \in markers} \ {0}, 0)

\* a dispatch on the marker that comes first in the text
DispatchOnFirstMarker(response_text) ==
    LET s == Strip(response_text)
        at == FirstOf(s, {SEARCH_MARKER, PIPELINE_MARKER, REEL_MARKER, NANOBANANA_MARKER, LEGACY_MARKER})
    IN  IF at = 0 THEN "plain"
        ELSE IF FindFrom(s, SEARCH_MARKER, 1) = at THEN "search"
        ELSE IF FindFrom(s, PIPELINE_MARKER, 1) = at THEN "pipeline"
        ELSE IF FindFrom(s, REEL_MARKER, 1) = at THEN "reel"
        ELSE "image"

\* the handler the response is dispatched to: the markers are looked for in
\* this order in response_text.strip()
Dispatch(response_text) ==
    LET s == Strip(response_text)
    IN  IF Contains(s, SEARCH_MARKER) THEN "search"
        ELSE IF Contains(s, PIPELINE_MARKER) THEN "pipeline"
        ELSE IF Contains(s, REEL_MARKER) THEN "reel"
        ELSE IF Contains(s, NANOBANANA_MARKER) \/ Contains(s, LEGACY_MARKER) THEN "image"
        ELSE "plain"

\* the handler by response, computed once
Handler == [r \in ModelResponses |-> Dispatch(r)]

\* a reply that leaves the history without the turn of the assistant
PlainReplyUnrecorded(a, response_text) ==
    [agent |-> a, result |-> TextResult(response_text), calls |-> <<>>]

\* the regular conversation response (578-580)
plain_reply(a, response_text) ==
    [agent |-> [a EXCEPT !.history = Append(@, AssistantTurn(response_text))],
     result |-> TextResult(response_text),
     calls |-> <<>>]



(***************************************************************************)
(* The registry of sessions of agent_direct.py: two dictionaries shared    *)
(* without a lock by the main thread and the cleanup thread                *)
(***************************************************************************)
\* sessions the registry holds before a request for a new one runs a pass
\* (19: 100 in the code, scaled down for the exploration)
MAX_AGENTS == 2

\* seconds without use after which a session is removed (20)
SESSION_TIMEOUT == 3600

\* seconds the cleanup thread sleeps between two passes (52)
CLEANUP_INTERVAL == 300

\* requests, passes of the cleanup thread and advances of the clock explored
MaxRequests == 3

MaxPasses == 1

MaxTicks == 2

\* the session ids of the requests
SessionIds == {"s1", "s2", "s3"}

\* by how much the clock advances between two steps
Ticks == {1, CLEANUP_INTERVAL, SESSION_TIMEOUT}

\* the thread of main() and the thread of periodic_cleanup (75)
Threads == {"main", "cleanup_thread"}

\* A dict that is iterated is its sequence of entries in insertion order; a
\* deleted entry leaves its slot behind, as in CPython
Deleted == [key |-> "", value |-> 0]

dict_keys(d) == {d[i].key : i \in DOMAIN d} \ {""}

dict_len(d) == Cardinality(dict_keys(d))

dict_index(d, k) == CHOOSE i \in DOMAIN d : d[i].key = k

dict_get(d, k) == d[dict_index(d, k)].value

dict_set(d, k, v) ==
    IF k \in dict_keys(d)
    THEN [d EXCEPT ![dict_index(d, k)].value = v]
    ELSE Append(d, [key |-> k, value |-> v])

dict_pop(d, k) ==
    IF k \in dict_keys(d) THEN [d EXCEPT ![dict_index(d, k)] = Deleted] ELSE d

\* the slots an iterator at position pos has still to visit
dict_rest(d, pos) == {i \in pos..Len(d) : d[i] # Deleted}

Least(S) == CHOOSE i \in S : \A j \in S : i <= j

\* a dict that is never iterated is a function: agents without the key sid
Without(f, sid) == [k \in (DOMAIN f) \ {sid} |-> f[k]]

VARIABLES
    agents,             \* session id -> the agent object of the session (18)
    session_last_used,  \* session id -> time of the last use (21)
    now,                \* time.time()
    constructed,        \* agent objects constructed so far
    main,               \* the call of get_or_create_agent of the main thread
    cleanup_thread,     \* the loop of periodic_cleanup
    cleanup,            \* the activation of cleanup_old_sessions of each thread
    touched,            \* session id -> the last execution of line 33 for it
    passed,             \* the registry as the last completed pass left it
    left                \* requests, passes and ticks still to be explored

registry_vars ==
    <<agents, session_last_used, now, constructed, main, cleanup_thread,
      cleanup, touched, passed, left>>

\* no activation of cleanup_old_sessions
Off == [pc |-> "off", current_time |-> 0, pos |-> 0, used |-> 0,
        sessions_to_remove |-> <<>>]

\* 38 and the iterator of 40: the time is read and the iteration starts on
\* the dict of this size
Started(current_time, d) ==
    [pc |-> "40", current_time |-> current_time, pos |-> 1, used |-> dict_len(d),
     sessions_to_remove |-> <<>>]

Idle == [pc |-> "idle", session_id |-> "", existing |-> 0, outcome |-> "none",
         returned |-> 0]

\* the module after its import and the start of the cleanup thread (18-21, 74-76)
RegistryStarted ==
    /\ agents = [sid \in {} |-> 0]
    /\ session_last_used = <<>>
    /\ now = 0
    /\ constructed = 0
    /\ main = Idle
    /\ cleanup_thread = [pc |-> "sleep", wake |-> CLEANUP_INTERVAL]
    /\ cleanup = [t \in Threads |-> Off]
    /\ touched = [sid \in {} |-> 0]
    /\ passed = [by |-> "none", current_time |-> 0, agents |-> [sid \in {} |-> 0],
                 session_last_used |-> <<>>, touched |-> [sid \in {} |-> 0]]

(***************************************************************************)
(* The main loop of agent_direct.py (80-137) and a function applied alone   *)
(***************************************************************************)
VARIABLES
    server,    \* the lines read (requests received) by their kind, the replies
               \* written, the request being served, the agent object bound
    heap,      \* agent object -> its state, for the agents main() is not serving
    applied    \* a function applied on its own: its argument and its value

server_vars == <<server, heap>>

\* no function is applied
NotApplied == [function |-> "none", argument |-> <<>>, value |-> <<>>, returned |-> FALSE]

\* a reply line written to stdout (124, 130, 137)
Reply(status, content) == [status |-> status, content |-> content]

\* a request the server has received, by line or by POST /chat
Received(transport, session_id, message, image_path) ==
    [transport |-> transport, session_id |-> session_id, message |-> message,
     image_path |-> image_path]

NoRequest == Received("none", "", "", None)

\* the server before the first request: nothing read, nothing written, no
\* call of chat under way, no agent bound
ServerStarted ==
    /\ server = [lines |-> <<>>, replies |-> <<>>, received |-> NoRequest,
                 pending |-> None, serving |-> 0]
    /\ heap = [o \in {} |-> 0]

(***************************************************************************)
(* The session: one agent and what its last chat call did                  *)
(***************************************************************************)
VARIABLES
    self,      \* the NanoBananaAgent of the session
    before,    \* the agent as the last chat call found it
    request,   \* the arguments of the last chat call
    rule,      \* the rule that handled the last chat call
    calls,     \* the calls it made to the models and the backend, in order
    result,    \* what it returned
    turns      \* chat calls of the session still to be explored

chat_vars == <<self, before, request, rule, calls, result, turns>>

vars == <<chat_vars, registry_vars, server_vars, applied>>

Request(user_message, image_path) == [message |-> user_message, image_path |-> image_path]

\* the session after the construction of its agent
Constructed ==
    /\ self = NewAgent
    /\ before = NewAgent
    /\ request = Request("", None)
    /\ rule = "none"
    /\ calls = <<>>
    /\ result = TextResult("")
    /\ RegistryStarted
    /\ ServerStarted

\* the chat calls of one session are explored with the registry at rest
AtRest ==
    /\ left = [requests |-> 0, passes |-> 0, ticks |-> 0]
    /\ applied = NotApplied

Init == Constructed /\ AtRest /\ turns = MaxTurns

InitGuided == Constructed /\ AtRest /\ turns = MaxGuidedTurns

InitTextStep == Constructed /\ AtRest /\ turns = MaxTextStepTurns

InitLoad == Constructed /\ AtRest /\ turns = MaxLoadTurns

InitDispatch == Constructed /\ AtRest /\ turns = MaxDispatchTurns

InitWorkflow == Constructed /\ AtRest /\ turns = MaxWorkflowTurns

InitBlocks == Constructed /\ AtRest /\ turns = MaxBlockTurns

InitPipeline == Constructed /\ AtRest /\ turns = MaxPipelineTurns

InitHistory == Constructed /\ AtRest /\ turns = MaxHistoryTurns

\* a server that writes no reply when chat raised
AnsweredUnlessRaised(res) ==
    server' = IF server.pending = None THEN server
              ELSE [server EXCEPT !.pending = None,
                                  !.replies = IF res.type = "exception" THEN @
                                              ELSE Append(@, Reply("success", res.type))]

\* 120-124 of agent_direct.py: when main() made the call it writes the reply,
\* status success with the result, or status error when chat raised (131-137)
Answered(res) ==
    server' = IF server.pending = None THEN server
              ELSE [server EXCEPT !.pending = None,
                                  !.replies = Append(@, IF res.type = "exception"
                                                        THEN Reply("error", res.text)
                                                        ELSE Reply("success", res.type))]

\* when the server makes the call, its arguments are those of the request
\* (agent_direct.py 120, agent_server.py 77)
CalledWith(user_message, image_path) ==
    \/ server.pending = None
    \/ server.pending = Some(Request(user_message, image_path))

\* the end of a chat call
Return(agent, res, made, handled_by, user_message, image_path) ==
    /\ self' = agent
    /\ before' = self
    /\ result' = res
    /\ calls' = made
    /\ rule' = handled_by
    /\ request' = Request(user_message, image_path)
    /\ turns' = turns - 1
    /\ CalledWith(user_message, image_path)
    /\ Answered(res)
    /\ UNCHANGED <<registry_vars, heap, applied>>

\* rule 1: RESET_CONVERSATION (250-265)
ResetCommandTurn(user_message, image_path) ==
    /\ turns > 0
    /\ ResetRule[user_message] = "reset_command"
    /\ Return(AfterResetCommand(self, image_path), TextResult(GREETING), <<>>,
              "reset_command", user_message, image_path)

\* rule 1: a start-over phrase (267-293)
StartOverTurn(user_message, image_path) ==
    /\ turns > 0
    /\ ResetRule[user_message] = "start_over"
    /\ Return(AfterStartOver(self, image_path), TextResult(RESET_MSG), <<>>,
              "start_over", user_message, image_path)

\* the turn passes rule 1: the user turn is appended and the text model called (295-364)
CallsTextModel(user_message) ==
    /\ turns > 0
    /\ ResetRule[user_message] = "none"

\* the call of the text model raises (361-364): chat does not catch it
TextModelRaises(user_message, image_path) ==
    LET a == AfterUserTurn(self, user_message, image_path)
    IN  /\ CallsTextModel(user_message)
        /\ Return(a, Raised("text_model"), TextModelCalls(a, user_message, None),
                  "raised", user_message, image_path)

\* rule 2: the message selects a reference (369-474); the response is not read
SelectionTurn(user_message, image_path) ==
    LET a == AfterUserTurn(self, user_message, image_path)
        ref == FindReference(a.history, user_message)
    IN  /\ CallsTextModel(user_message)
        /\ ref # None
        /\ \E response \in Replies(user_message), analysis \in AnalysisOutcomes(a) :
              Return(AfterSelection(a, Get(ref), analysis),
                     TextResult(TextQuestion(GuidelinesOf(Get(ref)))),
                     TextModelCalls(a, user_message, Some(response)) \o AnalysisCalls(a, analysis),
                     "selection", user_message, image_path)

\* rule 3: the message is the text specification (476-519); the response is not read
TextSpecTurn(user_message, image_path) ==
    LET a == AfterUserTurn(self, user_message, image_path)
    IN  /\ CallsTextModel(user_message)
        /\ a.awaiting_text_input
        /\ FindReference(a.history, user_message) = None
        /\ \E response \in Replies(user_message) :
              IF TextSpec[user_message].wants_no_text /\ a.selected_reference = None
              THEN \* self.selected_reference.get raises on None (491)
                   Return([a EXCEPT !.awaiting_text_input = FALSE, !.text_content = None],
                          Raised("AttributeError"),
                          TextModelCalls(a, user_message, Some(response)),
                          "text_spec", user_message, image_path)
              ELSE Return(AfterTextSpec(a, user_message),
                          TextResult(TextSpec[user_message].ready_msg),
                          TextModelCalls(a, user_message, Some(response)),
                          "text_spec", user_message, image_path)

\* rule 4: the response is dispatched on its markers (521-580); a is the agent
\* after the user turn
Dispatched(a, user_message) ==
    /\ CallsTextModel(user_message)
    /\ ~a.awaiting_text_input
    /\ FindReference(a.history, user_message) = None

\* the responses of the text model to the message that go to the handler
RepliesFor(user_message, handler) == {r \in Replies(user_message) : Handler[r] = handler}

Handled(a, out, user_message, image_path, response) ==
    Return(out.agent, out.result, TextModelCalls(a, user_message, Some(response)) \o out.calls,
           Handler[response], user_message, image_path)

SearchTurn(user_message, image_path) ==
    LET a == AfterUserTurn(self, user_message, image_path)
    IN  /\ Dispatched(a, user_message)
        /\ \E response \in RepliesFor(user_message, "search"), outcome \in SearchOutcomes :
              Handled(a, handle_search_references(a, Stripped[response], outcome),
                      user_message, image_path, response)

PipelineTurn(user_message, image_path) ==
    LET a == AfterUserTurn(self, user_message, image_path)
    IN  /\ Dispatched(a, user_message)
        /\ \E response \in RepliesFor(user_message, "pipeline"), outcome \in PipelineOutcomes :
              Handled(a, handle_generate_pipeline(a, Stripped[response], outcome),
                      user_message, image_path, response)

ReelTurn(user_message, image_path) ==
    LET a == AfterUserTurn(self, user_message, image_path)
    IN  /\ Dispatched(a, user_message)
        /\ \E response \in RepliesFor(user_message, "reel"), outcome \in ReelOutcomes :
              Handled(a, handle_generate_reel(a, Stripped[response], outcome),
                      user_message, image_path, response)

ImageTurn(user_message, image_path) ==
    LET a == AfterUserTurn(self, user_message, image_path)
    IN  /\ Dispatched(a, user_message)
        /\ \E response \in RepliesFor(user_message, "image"), outcome \in ImageOutcomes :
              Handled(a, handle_generate_image(a, response, user_message, outcome),
                      user_message, image_path, response)

PlainTurn(user_message, image_path) ==
    LET a == AfterUserTurn(self, user_message, image_path)
    IN  /\ Dispatched(a, user_message)
        /\ \E response \in RepliesFor(user_message, "plain") :
              Handled(a, plain_reply(a, Stripped[response]),
                      user_message, image_path, response)

\* one chat call (agent.py 237-580)
Chat(user_message, image_path) ==
    \/ ResetCommandTurn(user_message, image_path)
    \/ StartOverTurn(user_message, image_path)
    \/ TextModelRaises(user_message, image_path)
    \/ SelectionTurn(user_message, image_path)
    \/ TextSpecTurn(user_message, image_path)
    \/ SearchTurn(user_message, image_path)
    \/ PipelineTurn(user_message, image_path)
    \/ ReelTurn(user_message, image_path)
    \/ ImageTurn(user_message, image_path)
    \/ PlainTurn(user_message, image_path)

Next == \E user_message \in ChatMessages, image_path \in ImagePaths : Chat(user_message, image_path)

Spec == Init /\ [][Next]_vars

\* one chat call of the guided workflow: the text model answers and asks for
\* nothing but a search
GuidedChat(user_message, image_path) ==
    \/ ResetCommandTurn(user_message, image_path)
    \/ StartOverTurn(user_message, image_path)
    \/ SelectionTurn(user_message, image_path)
    \/ TextSpecTurn(user_message, image_path)
    \/ SearchTurn(user_message, image_path)
    \/ PlainTurn(user_message, image_path)

NextGuided ==
    \E user_message \in GuidedMessages, image_path \in ImagePaths : GuidedChat(user_message, image_path)

SpecGuided == InitGuided /\ [][NextGuided]_vars

\* one chat call on the way to the text specification: the text model answers
\* and asks for nothing but a search
TextStepChat(user_message, image_path) ==
    \/ SelectionTurn(user_message, image_path)
    \/ TextSpecTurn(user_message, image_path)
    \/ SearchTurn(user_message, image_path)
    \/ PlainTurn(user_message, image_path)

NextTextStep ==
    \E user_message \in TextStepMessages, image_path \in ImagePaths :
        TextStepChat(user_message, image_path)

SpecTextStep == InitTextStep /\ [][NextTextStep]_vars

\* one chat call with an image that may fail to load: the text model answers
\* in plain text, or its call raises
LoadChat(user_message, image_path) ==
    \/ TextModelRaises(user_message, image_path)
    \/ PlainTurn(user_message, image_path)

NextLoad ==
    \E user_message \in LoadMessages, image_path \in LoadImagePaths :
        LoadChat(user_message, image_path)

SpecLoad == InitLoad /\ [][NextLoad]_vars

\* one chat call that is dispatched on the markers of the response
DispatchChat(user_message, image_path) ==
    \/ SearchTurn(user_message, image_path)
    \/ PipelineTurn(user_message, image_path)
    \/ ReelTurn(user_message, image_path)
    \/ ImageTurn(user_message, image_path)
    \/ PlainTurn(user_message, image_path)

NextDispatch ==
    \E user_message \in DispatchMessages, image_path \in ImagePaths :
        DispatchChat(user_message, image_path)

SpecDispatch == InitDispatch /\ [][NextDispatch]_vars

\* one chat call of the workflow from the search to the generation: no reset,
\* the text model answers and asks for nothing but a search or the pipeline
WorkflowChat(user_message, image_path) ==
    \/ SelectionTurn(user_message, image_path)
    \/ TextSpecTurn(user_message, image_path)
    \/ SearchTurn(user_message, image_path)
    \/ PipelineTurn(user_message, image_path)

NextWorkflow ==
    \E user_message \in WorkflowMessages, image_path \in ImagePaths :
        WorkflowChat(user_message, image_path)

SpecWorkflow == InitWorkflow /\ [][NextWorkflow]_vars

\* one chat call whose response carries a block of several lines: the text
\* model answers and asks for a search, the pipeline or a reel
BlockChat(user_message, image_path) ==
    \/ SearchTurn(user_message, image_path)
    \/ PipelineTurn(user_message, image_path)
    \/ ReelTurn(user_message, image_path)

NextBlocks ==
    \E user_message \in BlockMessages, image_path \in ImagePaths :
        BlockChat(user_message, image_path)

SpecBlocks == InitBlocks /\ [][NextBlocks]_vars

\* the workflow from the search to a generation whose block names a reference image
NextPipeline ==
    \E user_message \in PipelineMessages, image_path \in ImagePaths :
        WorkflowChat(user_message, image_path)

SpecPipeline == InitPipeline /\ [][NextPipeline]_vars

\* a long conversation in plain text, with and without an image URL in the
\* message; the text model answers or its call raises
NextHistory == \E user_message \in LoadMessages : LoadChat(user_message, None)

SpecHistory == InitHistory /\ [][NextHistory]_vars

(***************************************************************************)
(* get_or_create_agent and cleanup_old_sessions, one step per line: the    *)
(* two threads share agents and session_last_used and nothing orders them   *)
(***************************************************************************)
\* a call or a pass is under way
AtWork == main.pc # "idle" \/ cleanup_thread.pc # "sleep"

\* the clock advances: a call or a pass takes seconds, minutes and hours go
\* by between them
Tick(d) ==
    /\ left.ticks > 0
    /\ d = 1 \/ ~AtWork
    /\ now' = now + d
    /\ left' = [left EXCEPT !.ticks = @ - 1]
    /\ UNCHANGED <<chat_vars, server_vars, applied, agents, session_last_used, constructed, main,
                   cleanup_thread, cleanup, touched, passed>>

\* 99: main() calls get_or_create_agent for the session of the request
Receive(session_id) ==
    /\ main.pc = "idle"
    /\ left.requests > 0
    /\ main' = [pc |-> "25", session_id |-> session_id,
                existing |-> IF session_id \in DOMAIN agents THEN agents[session_id] ELSE 0,
                outcome |-> "running", returned |-> 0]
    /\ left' = [left EXCEPT !.requests = @ - 1]
    /\ UNCHANGED <<chat_vars, server_vars, applied, agents, session_last_used, now, constructed,
                   cleanup_thread, cleanup, touched, passed>>

\* 25-26: at capacity a pass runs first, in the main thread (38, 40)
CheckCapacity ==
    /\ main.pc = "25"
    /\ IF Cardinality(DOMAIN agents) >= MAX_AGENTS
       THEN /\ main' = [main EXCEPT !.pc = "26"]
            /\ cleanup' = [cleanup EXCEPT !["main"] = Started(now, session_last_used)]
       ELSE /\ main' = [main EXCEPT !.pc = "28"]
            /\ UNCHANGED cleanup
    /\ UNCHANGED <<chat_vars, server_vars, applied, agents, session_last_used, now, constructed,
                   cleanup_thread, touched, passed, left>>

\* 52-54: the cleanup thread wakes up and starts a pass (38, 40)
Wake ==
    /\ cleanup_thread.pc = "sleep"
    /\ now >= cleanup_thread.wake
    /\ left.passes > 0
    /\ cleanup_thread' = [cleanup_thread EXCEPT !.pc = "pass"]
    /\ cleanup' = [cleanup EXCEPT !["cleanup_thread"] = Started(now, session_last_used)]
    /\ left' = [left EXCEPT !.passes = @ - 1]
    /\ UNCHANGED <<chat_vars, server_vars, applied, agents, session_last_used, now, constructed, main,
                   touched, passed>>

\* 39-42: the iterator finds that the dict changed size; the RuntimeError
\* leaves get_or_create_agent (caught at 131) or is logged by the cleanup
\* thread (57)
ListingRaises(t) ==
    /\ cleanup[t].pc = "40"
    /\ dict_len(session_last_used) # cleanup[t].used
    /\ cleanup' = [cleanup EXCEPT ![t] = Off]
    /\ IF t = "main"
       THEN /\ main' = [main EXCEPT !.pc = "idle", !.outcome = "RuntimeError"]
            /\ UNCHANGED cleanup_thread
       ELSE /\ cleanup_thread' = [pc |-> "sleep", wake |-> now + CLEANUP_INTERVAL]
            /\ UNCHANGED main
    /\ UNCHANGED <<chat_vars, server_vars, applied, agents, session_last_used, now, constructed,
                   touched, passed, left>>

\* 39-42: the iterator yields the next entry, listed when it has expired (41)
ListingVisits(t) ==
    /\ cleanup[t].pc = "40"
    /\ dict_len(session_last_used) = cleanup[t].used
    /\ dict_rest(session_last_used, cleanup[t].pos) # {}
    /\ cleanup' =
          [cleanup EXCEPT ![t] =
              [@ EXCEPT
                 !.pos = Least(dict_rest(session_last_used, cleanup[t].pos)) + 1,
                 !.sessions_to_remove =
                     IF cleanup[t].current_time
                          - session_last_used[Least(dict_rest(session_last_used, cleanup[t].pos))].value
                        > SESSION_TIMEOUT
                     THEN Append(@, session_last_used[Least(dict_rest(session_last_used, cleanup[t].pos))].key)
                     ELSE @]]
    /\ UNCHANGED <<chat_vars, server_vars, applied, agents, session_last_used, now, constructed, main,
                   cleanup_thread, touched, passed, left>>

\* 39-42: the iterator is exhausted, the loop of 43 starts
ListingEnds(t) ==
    /\ cleanup[t].pc = "40"
    /\ dict_len(session_last_used) = cleanup[t].used
    /\ dict_rest(session_last_used, cleanup[t].pos) = {}
    /\ cleanup' = [cleanup EXCEPT ![t].pc = "43"]
    /\ UNCHANGED <<chat_vars, server_vars, applied, agents, session_last_used, now, constructed, main,
                   cleanup_thread, touched, passed, left>>

\* 43-46: agents.pop(sid, None) for the next listed session
PopAgent(t) ==
    /\ cleanup[t].pc = "43"
    /\ cleanup[t].sessions_to_remove # <<>>
    /\ agents' = Without(agents, Head(cleanup[t].sessions_to_remove))
    /\ cleanup' = [cleanup EXCEPT ![t].pc = "47"]
    /\ UNCHANGED <<chat_vars, server_vars, applied, session_last_used, now, constructed, main,
                   cleanup_thread, touched, passed, left>>

\* 47: session_last_used.pop(sid, None)
PopLastUsed(t) ==
    /\ cleanup[t].pc = "47"
    /\ session_last_used' = dict_pop(session_last_used, Head(cleanup[t].sessions_to_remove))
    /\ cleanup' = [cleanup EXCEPT ![t].pc = "43",
                                  ![t].sessions_to_remove = Tail(@)]
    /\ UNCHANGED <<chat_vars, server_vars, applied, agents, now, constructed, main, cleanup_thread,
                   touched, passed, left>>

\* 43: the loop is over and cleanup_old_sessions returns, to line 28 in the
\* main thread and to the sleep of 52 in the cleanup thread
EndPass(t) ==
    /\ cleanup[t].pc = "43"
    /\ cleanup[t].sessions_to_remove = <<>>
    /\ cleanup' = [cleanup EXCEPT ![t] = Off]
    /\ passed' = [by |-> t, current_time |-> cleanup[t].current_time,
                  agents |-> agents, session_last_used |-> session_last_used,
                  touched |-> touched]
    /\ IF t = "main"
       THEN /\ main' = [main EXCEPT !.pc = "28"]
            /\ UNCHANGED cleanup_thread
       ELSE /\ cleanup_thread' = [pc |-> "sleep", wake |-> now + CLEANUP_INTERVAL]
            /\ UNCHANGED main
    /\ UNCHANGED <<chat_vars, server_vars, applied, agents, session_last_used, now, constructed,
                   touched, left>>

\* 28: is the session in agents?
CheckSession ==
    /\ main.pc = "28"
    /\ main' = [main EXCEPT !.pc = IF main.session_id \in DOMAIN agents THEN "33" ELSE "31"]
    /\ UNCHANGED <<chat_vars, server_vars, applied, agents, session_last_used, now, constructed,
                   cleanup_thread, cleanup, touched, passed, left>>

\* 29-31: a new agent is constructed and stored
Create ==
    /\ main.pc = "31"
    /\ constructed' = constructed + 1
    /\ agents' = [sid \in DOMAIN agents \cup {main.session_id} |->
                     IF sid = main.session_id THEN constructed + 1 ELSE agents[sid]]
    /\ main' = [main EXCEPT !.pc = "33"]
    /\ UNCHANGED <<chat_vars, server_vars, applied, session_last_used, now, cleanup_thread, cleanup,
                   touched, passed, left>>

\* 33: session_last_used[session_id] = time.time()
Touch ==
    /\ main.pc = "33"
    /\ session_last_used' = dict_set(session_last_used, main.session_id, now)
    /\ touched' = [sid \in DOMAIN touched \cup {main.session_id} |->
                      IF sid = main.session_id
                      THEN [at |-> now,
                            agent |-> IF sid \in DOMAIN agents THEN agents[sid] ELSE 0]
                      ELSE touched[sid]]
    /\ main' = [main EXCEPT !.pc = "34"]
    /\ UNCHANGED <<chat_vars, server_vars, applied, agents, now, constructed, cleanup_thread, cleanup,
                   passed, left>>

\* 34: return agents[session_id], a KeyError when the session is not there
ReturnAgent ==
    /\ main.pc = "34"
    /\ main' = IF main.session_id \in DOMAIN agents
               THEN [main EXCEPT !.pc = "idle", !.outcome = "returned",
                                 !.returned = agents[main.session_id]]
               ELSE [main EXCEPT !.pc = "idle", !.outcome = "KeyError"]
    /\ UNCHANGED <<chat_vars, server_vars, applied, agents, session_last_used, now, constructed,
                   cleanup_thread, cleanup, touched, passed, left>>

InitRegistry ==
    /\ Constructed
    /\ turns = 0
    /\ left = [requests |-> MaxRequests, passes |-> MaxPasses, ticks |-> MaxTicks]
    /\ applied = NotApplied

NextRegistry ==
    \/ \E d \in Ticks : Tick(d)
    \/ \E session_id \in SessionIds : Receive(session_id)
    \/ CheckCapacity
    \/ CheckSession
    \/ Create
    \/ Touch
    \/ ReturnAgent
    \/ Wake
    \/ \E t \in Threads : ListingRaises(t)
    \/ \E t \in Threads : ListingVisits(t)
    \/ \E t \in Threads : ListingEnds(t)
    \/ \E t \in Threads : PopAgent(t)
    \/ \E t \in Threads : PopLastUsed(t)
    \/ \E t \in Threads : EndPass(t)

SpecRegistry == InitRegistry /\ [][NextRegistry]_vars

(***************************************************************************)
(* Properties of the reset rules                                           *)
(***************************************************************************)
\* the six workflow fields of the agent are clear
Cleared(a) ==
    /\ a.selected_reference = None
    /\ a.product_image_path = None
    /\ a.text_content = None
    /\ a.design_guidelines = None
    /\ a.product_analysis = None
    /\ ~a.awaiting_text_input

\* the messages that hold the phrase "otro producto" in any letter case
SaysOtroProducto == {m \in UserMessages : Contains(Lower(m), "otro producto")}

ResetMessages == SaysOtroProducto \cup {"RESET_CONVERSATION"}

\* C1: after a chat call whose message holds the start-over phrase "otro
\* producto" in any letter case, selected_reference, product_image_path,
\* text_content, design_guidelines and product_analysis are None and
\* awaiting_text_input is false, also when the call carried an image_path
C1_StartOverClears == request.message \in SaysOtroProducto => Cleared(self)

\* a start-over call that carried an image_path and found every field set
C1_Witness ==
    /\ request.message \in SaysOtroProducto
    /\ request.image_path # None
    /\ before.selected_reference # None
    /\ before.product_image_path # None
    /\ before.text_content # None
    /\ before.design_guidelines # None
    /\ before.product_analysis # None
    /\ Cleared(self)

\* C2 (as the code has it): a start-over call erases the history; the reset
\* marker is the only turn it leaves
C2_StartOverErasesHistory ==
    request.message \in SaysOtroProducto => self.history = <<ResetMarker>>

\* a start-over call that found two turns or more in the history
C2_Witness ==
    /\ request.message \in SaysOtroProducto
    /\ Len(before.history) >= 2
    /\ self.history = <<ResetMarker>>

\* C2 as stated: after a start-over call the history is the history the call
\* found, in the same order, followed by a reset marker
C2_HistoryKept ==
    request.message \in SaysOtroProducto =>
        /\ Len(self.history) = Len(before.history) + 1
        /\ SubSeq(self.history, 1, Len(before.history)) = before.history
        /\ self.history[Len(self.history)].is_reset

\* C3 (as the code has it): RESET_CONVERSATION clears the six workflow fields
\* and leaves the history empty, with no reset marker
C3_ResetCommandClears ==
    request.message = "RESET_CONVERSATION" => Cleared(self) /\ self.history = <<>>

\* a RESET_CONVERSATION call in a session with a history and a selected reference
C3_Witness ==
    /\ request.message = "RESET_CONVERSATION"
    /\ before.history # <<>>
    /\ before.selected_reference # None
    /\ Cleared(self)
    /\ self.history = <<>>

\* C3 as stated: RESET_CONVERSATION clears the six workflow fields and leaves
\* a reset marker as the latest turn of the history
C3_LeavesMarker ==
    request.message = "RESET_CONVERSATION" =>
        /\ Cleared(self)
        /\ self.history # <<>>
        /\ self.history[Len(self.history)].is_reset

\* C4: a reset call (RESET_CONVERSATION or a start-over phrase) calls neither
\* the text model nor the backend, leaves no user turn in the history and
\* returns its fixed text as a result of type text
C4_ResetShortCircuits ==
    request.message \in ResetMessages =>
        /\ calls = <<>>
        /\ \A i \in DOMAIN self.history : self.history[i].role # "user"
        /\ result = TextResult(IF request.message = "RESET_CONVERSATION"
                               THEN GREETING ELSE RESET_MSG)

\* a start-over call made while the agent waited for the text
C4_Witness ==
    /\ request.message \in SaysOtroProducto
    /\ before.awaiting_text_input
    /\ calls = <<>>
    /\ result = TextResult(RESET_MSG)

(***************************************************************************)
(* Properties of the selection and of the text specification step          *)
(***************************************************************************)
\* the reference list of the most recent turn of the history that carries
\* one and has no reset marker after it, <<>> if there is none
LatestList(history) ==
    Append(history, AssistantTurn(""))[
        MinOr({i \in DOMAIN history :
                  /\ history[i].references # <<>>
                  /\ \A j \in i..Len(history) :
                        ~history[j].is_reset /\ (j > i => history[j].references = <<>>)},
              Len(history) + 1)].references

\* the integer of a message that is a bare integer, -1 for any other message
BareInteger ==
    [m \in UserMessages \cup {""} |-> IF IsDigit(Strip(m)) THEN ToInt(Strip(m)) ELSE 0 - 1]

\* the chat call was a selection from the latest list: its message is an
\* integer from 1 to min(3, k), k the length of the list
SelectsFromLatest ==
    /\ 1 <= BareInteger[request.message]
    /\ BareInteger[request.message] <= 3
    /\ BareInteger[request.message] <= Len(LatestList(before.history))

\* C5 (where the text model answered): when the history holds a reference
\* list after its last reset marker and the message is a bare integer n, then
\* for n from 1 to min(3, k) the call binds entry n of the latest list, copies
\* its design_guidelines and sets awaiting_text_input; for any other n it
\* binds nothing and, unless the agent waited for the text, leaves
\* awaiting_text_input false and dispatches the response of the text model
C5_SelectsFromLatestList ==
    (BareInteger[request.message] >= 0 /\ LatestList(before.history) # <<>> /\ rule # "raised") =>
        IF SelectsFromLatest
        THEN /\ self.selected_reference =
                    Some(LatestList(before.history)[BareInteger[request.message]])
             /\ self.design_guidelines =
                    GuidelinesOf(LatestList(before.history)[BareInteger[request.message]])
             /\ self.awaiting_text_input
        ELSE /\ self.selected_reference = before.selected_reference
             /\ ~before.awaiting_text_input =>
                    /\ ~self.awaiting_text_input
                    /\ rule \in {"search", "pipeline", "reel", "image", "plain"}

\* references offered by the turns of the history that have no reset marker after them
OfferedSinceReset(history) ==
    UNION {{history[i].references[k] : k \in DOMAIN history[i].references} :
              i \in {i \in DOMAIN history : \A j \in i..Len(history) : ~history[j].is_reset}}

\* C6: a reset call leaves no reference selected and no reference list in the
\* history; a call binds no reference but one offered in the history it found
\* after the last reset marker; and a reference is selected only while the
\* history holds a list that offers it
C6_NoStaleSelection ==
    /\ request.message \in ResetMessages =>
          /\ self.selected_reference = None
          /\ \A i \in DOMAIN self.history : self.history[i].references = <<>>
    /\ (self.selected_reference # before.selected_reference /\ self.selected_reference # None) =>
          Get(self.selected_reference) \in OfferedSinceReset(before.history)
    /\ self.selected_reference # None =>
          Get(self.selected_reference) \in OfferedSinceReset(self.history)

\* the message "1" right after a start-over: nothing is bound
C6_Witness ==
    /\ request.message = "1"
    /\ before.history = <<ResetMarker>>
    /\ rule = "plain"
    /\ self.selected_reference = None

\* the call made the main call of the text model
CalledTextModel ==
    \E i \in DOMAIN calls :
        /\ calls[i].api = "generate_content"
        /\ calls[i].response \in {None} \cup {Some(r) : r \in ModelResponses}

\* C7: a chat call handled as a reference selection or as the text
\* specification step makes no call of the text model
C7_RulesBeforeModel == rule \in {"selection", "text_spec"} => ~CalledTextModel

\* C8: when the agent waits for the text and the message is neither a reset
\* nor a selection, the call is the text specification step: afterwards
\* awaiting_text_input is false, text_content is None for a no-text message and
\* the parsed text otherwise, and the confirmation is returned as a result of
\* type text and is the last turn of the history
C8_TextSpecConsumesTurn ==
    (/\ before.awaiting_text_input
     /\ request.message \notin ResetMessages
     /\ ~SelectsFromLatest) =>
        /\ ~self.awaiting_text_input
        /\ self.text_content = TextSpec[request.message].text_content
        /\ result.type = "text"
        /\ self.history # <<>>
        /\ self.history[Len(self.history)] = AssistantTurn(result.text)

\* C9: awaiting_text_input and a text_content that is set never hold together
C9_AwaitingExcludesText == ~(self.awaiting_text_input /\ self.text_content # None)

\* the chat call was a reset
WasReset == request.message \in ResetMessages

\* C10 (as the code has it): a reset call clears the six workflow fields
\* together; no other call takes selected_reference or product_image_path back
\* to None; design_guidelines goes back to None in no other call but the
\* selection of a reference whose design_guidelines is null
C10_NoPartialReset ==
    /\ WasReset => Cleared(self)
    /\ ~WasReset =>
          /\ before.selected_reference # None => self.selected_reference # None
          /\ before.product_image_path # None => self.product_image_path # None
          /\ (before.design_guidelines # None /\ self.design_guidelines = None) =>
                /\ rule = "selection"
                /\ Get(self.selected_reference).design_guidelines = "null"

\* a second selection, of a reference with null design_guidelines
C10_Witness ==
    /\ rule = "selection"
    /\ before.design_guidelines # None
    /\ self.design_guidelines = None
    /\ before.selected_reference # None
    /\ self.selected_reference # None
    /\ self.product_image_path # None

\* C10 as stated: selected_reference, product_image_path and design_guidelines
\* go back to None in a reset call only
C10_NulledOnlyByReset ==
    ~WasReset =>
        /\ before.selected_reference # None => self.selected_reference # None
        /\ before.product_image_path # None => self.product_image_path # None
        /\ before.design_guidelines # None => self.design_guidelines # None

(***************************************************************************)
(* Properties of the dispatch and of the handlers                          *)
(***************************************************************************)
\* the rules of a chat call whose response is dispatched on its markers
DispatchRules == {"search", "pipeline", "reel", "image", "plain"}

\* the position of the call of the text model among the calls of a chat call
TextModelAt == IF calls[1].api = "load_image" THEN 2 ELSE 1

\* response.text of the text model in the last chat call
ModelResponse == Get(calls[TextModelAt].response)

\* the handlers whose marker the response holds, by response
MarkersIn ==
    [r \in ModelResponses |->
        {h \in {"search", "pipeline", "reel", "image"} :
            \/ h = "search" /\ Contains(r, SEARCH_MARKER)
            \/ h = "pipeline" /\ Contains(r, PIPELINE_MARKER)
            \/ h = "reel" /\ Contains(r, REEL_MARKER)
            \/ h = "image" /\ (Contains(r, NANOBANANA_MARKER) \/ Contains(r, LEGACY_MARKER))}]

\* the handler of the highest priority among hs, "plain" when there is none
ByPriority(hs) ==
    IF "search" \in hs THEN "search"
    ELSE IF "pipeline" \in hs THEN "pipeline"
    ELSE IF "reel" \in hs THEN "reel"
    ELSE IF "image" \in hs THEN "image"
    ELSE "plain"

\* the calls a handler makes
ApisOf(handler) ==
    IF handler = "search" THEN {"search-references"}
    ELSE IF handler = "pipeline" THEN {"pipeline", "increment-reference-ranking"}
    ELSE IF handler = "reel" THEN {"video/generate"}
    ELSE IF handler = "image" THEN {"generate_content"}
    ELSE {}

\* C11: a response that is dispatched goes to one handler, the one of the
\* highest priority (search, pipeline, reel, legacy image) among the markers it
\* holds, wherever they stand in the text, and only that handler makes calls; a
\* response with no marker goes to no handler and is returned whole (stripped)
\* as a result of type text
C11_PriorityDispatch ==
    rule \in DispatchRules =>
        /\ rule = ByPriority(MarkersIn[ModelResponse])
        /\ \A i \in DOMAIN calls : i > TextModelAt => calls[i].api \in ApisOf(rule)
        /\ rule = "plain" =>
              /\ Len(calls) = TextModelAt
              /\ result = TextResult(Strip(ModelResponse))

\* a response with three markers, the search marker last, went to the search handler
C11_Witness ==
    /\ rule = "search"
    /\ ModelResponse = REEL_PIPELINE_SEARCH_REPLY
    /\ Len(calls) = TextModelAt + 1
    /\ calls[Len(calls)].api = "search-references"

\* the last turn of the history of the agent
LastTurn == self.history[Len(self.history)]

\* C12: each of the four handlers appends the message it returns to the
\* history before it returns, on success and on every failure path: a call
\* that was dispatched to a handler and returned ends with an assistant turn
\* that holds the returned message as the last turn of the history
C12_HandlersAppend ==
    (rule \in {"search", "pipeline", "reel", "image"} /\ result.type # "exception") =>
        /\ self.history # <<>>
        /\ LastTurn.role = "assistant"
        /\ StartsWith(LastTurn.content, result.text)

\* the six workflow fields of two agents are the same
SameWorkflow(a, b) ==
    /\ a.selected_reference = b.selected_reference
    /\ a.product_image_path = b.product_image_path
    /\ a.text_content = b.text_content
    /\ a.awaiting_text_input = b.awaiting_text_input
    /\ a.design_guidelines = b.design_guidelines
    /\ a.product_analysis = b.product_analysis

\* a call of the last chat call went to the api
Called(api) == \E i \in DOMAIN calls : calls[i].api = api

\* C13: when the pipeline trigger is dispatched and no product image path is
\* stored, the call returns a result of type text with a message, makes no
\* request to the pipeline endpoint and leaves the six workflow fields as they were
C13_PipelineNeedsImage ==
    (rule = "pipeline" /\ self.product_image_path = None) =>
        /\ result.type = "text"
        /\ result.text # ""
        /\ ~Called("pipeline")
        /\ SameWorkflow(self, before)

\* a pipeline trigger without a product image, in a session with a selected reference
C13_Witness ==
    /\ rule = "pipeline"
    /\ self.product_image_path = None
    /\ before.selected_reference # None
    /\ result = TextResult(NO_PRODUCT_IMAGE)
    /\ ~Called("pipeline")

\* the answer of POST /pipeline in the last chat call has success and a finalImagePath
PipelineAnswered ==
    \E i \in DOMAIN calls :
        /\ calls[i].api = "pipeline"
        /\ ~calls[i].raised
        /\ calls[i].success
        /\ calls[i].finalImagePath \notin {None, Some("")}

\* finalImagePath of the answer of POST /pipeline in the last chat call
AnsweredPath == calls[CHOOSE i \in DOMAIN calls : calls[i].api = "pipeline"].finalImagePath

\* C14: when the pipeline call answers with success and a finalImagePath, the
\* handler returns a result of type image whose file is that path, whether the
\* ranking call that follows went through or failed
C14_PipelineReturnsFinalImage ==
    (rule = "pipeline" /\ PipelineAnswered) =>
        /\ result.type = "image"
        /\ result.file = AnsweredPath

\* a pipeline success for a selected reference whose ranking call failed
C14_Witness ==
    /\ rule = "pipeline"
    /\ self.selected_reference # None
    /\ calls[Len(calls)].api = "increment-reference-ranking"
    /\ ~calls[Len(calls)].ok
    /\ result.type = "image"
    /\ result.file = Some(FINAL_IMAGE)

\* the texts with which the pipeline handler asks to try again
RetryPrompts == {PIPELINE_ERROR, PIPELINE_FAILED}

\* C15: the pipeline handler lets no exception reach the caller: when the
\* product file cannot be read, the call fails (transport error, timeout, HTTP
\* error status, body that is no JSON) or the answer has no success or no
\* finalImagePath, it returns a result of type text that asks to try again
C15_PipelineNeverRaises ==
    rule = "pipeline" =>
        /\ result.type # "exception"
        /\ (self.product_image_path # None /\ ~PipelineAnswered) =>
              /\ result.type = "text"
              /\ result.text \in RetryPrompts

\* a pipeline call that failed (the request raised): the retry prompt is returned
\* and recorded
C15_Witness ==
    /\ rule = "pipeline"
    /\ Called("pipeline")
    /\ result = TextResult(PIPELINE_ERROR)
    /\ LastTurn = AssistantTurn(PIPELINE_ERROR)
    /\ self.selected_reference # None

\* the reel block of the response of the last chat call holds a PROMPT that is not empty
ReelHasPrompt == ReelFields(Strip(ModelResponse)).prompt \notin {None, Some("")}

\* the requests of the last chat call to the video endpoint
ReelRequests == {i \in DOMAIN calls : calls[i].api = "video/generate"}

\* the answer of the video endpoint in the last chat call is an acceptance
ReelAnswerAccepted ==
    \E i \in ReelRequests :
        ~calls[i].raised /\ ~calls[i].http_error /\ calls[i].status = "accepted"

\* the result is the success message of the reel handler
ReelStarted == result.type = "text" /\ result.text = REEL_STARTED

\* C16 (as the code has it): without a PROMPT in the reel block the handler
\* returns its failure text and sends no request; with a PROMPT it sends one
\* multipart request, or none and the error text when the image file exists
\* and cannot be opened; the success message with the postId is returned only
\* for an answer with status "accepted" and no HTTP error status
C16_ReelRequest ==
    rule = "reel" =>
        /\ ~ReelHasPrompt => result = TextResult(REEL_NO_PROMPT) /\ ReelRequests = {}
        /\ ReelHasPrompt =>
              /\ Cardinality(ReelRequests) <= 1
              /\ ReelRequests = {} => result = TextResult(REEL_ERROR)
              /\ \A i \in ReelRequests : DOMAIN calls[i].files \in {{"productImage"}, {"_forceMultipart"}}
        /\ ReelStarted <=> ReelAnswerAccepted
        /\ ReelStarted => result.postId = Some("post-1")

\* a reel started for the stored product image: one request, accepted
C16_Witness ==
    /\ rule = "reel"
    /\ ReelHasPrompt
    /\ Cardinality(ReelRequests) = 1
    /\ self.product_image_path # None
    /\ ReelStarted
    /\ result.postId # None

\* C16 as stated: without a PROMPT the handler returns its failure text and
\* sends no request; with a PROMPT exactly one multipart request is sent; the
\* success message with the postId is returned only for an accepted answer
\* with no HTTP error status
C16_ExactlyOneRequest ==
    rule = "reel" =>
        /\ ~ReelHasPrompt => result = TextResult(REEL_NO_PROMPT) /\ ReelRequests = {}
        /\ ReelHasPrompt => Cardinality(ReelRequests) = 1
        /\ ReelStarted <=> ReelAnswerAccepted

\* the answer of the search in the last chat call
SearchAnswer == calls[CHOOSE i \in DOMAIN calls : calls[i].api = "search-references"]

\* the search of the last chat call went through and found references
SearchFound ==
    ~SearchAnswer.raised /\ SearchAnswer.status = "success" /\ SearchAnswer.results # <<>>

\* C17: after a search that went through and found references the result is
\* of type reference_options and the history turn that was appended carries
\* the very list that is returned, the list of the backend; after an empty
\* result, a status that is not success or a failure of the call the result is
\* of type text with a fallback message and the appended turn carries no list
C17_SearchRecordsList ==
    rule = "search" =>
        /\ LastTurn.role = "assistant"
        /\ LastTurn.content = result.text
        /\ LastTurn.references = result.references
        /\ SearchFound =>
              /\ result.type = "reference_options"
              /\ result.references = SearchAnswer.results
        /\ ~SearchFound =>
              /\ result.type = "text"
              /\ result.text \in {SEARCH_EMPTY, SEARCH_FAILED}
              /\ LastTurn.references = <<>>

\* a second search: the new list is returned and recorded after the older one
C17_Witness ==
    /\ rule = "search"
    /\ SearchFound
    /\ result.type = "reference_options"
    /\ LastTurn.references = ListB
    /\ \E i \in 1..(Len(self.history) - 1) : self.history[i].references = ListA

(***************************************************************************)
(* Properties of the registry of sessions                                  *)
(***************************************************************************)
\* the last call of get_or_create_agent has ended
CallEnded == main.pc = "idle" /\ main.outcome # "none"

\* C18: get_or_create_agent never rejects, it ends by returning a session,
\* also for a new session id that arrives at capacity; and a call for a
\* session id that is in the store returns the object the store held for it
C18_GetOrCreateNeverRejects ==
    CallEnded =>
        /\ main.outcome = "returned"
        /\ main.existing # 0 => main.returned = main.existing

\* the sessions a pass at current_time had to remove from last_used
Expired(last_used, current_time) ==
    {last_used[i].key : i \in {j \in DOMAIN last_used :
        /\ last_used[j] # Deleted
        /\ current_time - last_used[j].value > SESSION_TIMEOUT}}

\* the sessions used within the timeout before current_time
Fresh(uses, current_time) ==
    {sid \in DOMAIN uses : current_time - uses[sid].at <= SESSION_TIMEOUT}

\* C19: when a pass executed at current_time has completed, every session
\* last used more than SESSION_TIMEOUT before it is absent from the store,
\* and every session used within the timeout is present with the agent it had
C19_PassRemovesExactlyTheExpired ==
    passed.by # "none" =>
        /\ Expired(passed.session_last_used, passed.current_time)
              \cap DOMAIN passed.agents = {}
        /\ \A sid \in Fresh(passed.touched, passed.current_time) :
              /\ sid \in DOMAIN passed.agents
              /\ passed.agents[sid] = passed.touched[sid].agent

\* C20: once a call of get_or_create_agent and the pass of the cleanup thread
\* have both ended, the call has returned a session and the session it
\* touched, used within the timeout, is in the registry with that agent
C20_TouchedSessionSurvives ==
    (CallEnded /\ ~AtWork) =>
        /\ main.outcome = "returned"
        /\ main.session_id \in Fresh(touched, now) =>
              /\ main.session_id \in DOMAIN agents
              /\ agents[main.session_id] = main.returned

(***************************************************************************)
(* Properties of a turn whose model call fails                             *)
(***************************************************************************)
\* the types of a well-formed result of chat
ResultTypes == {"text", "image", "reference_options"}

\* C23: every chat call but the startup one returns a well-formed result, of
\* type text, image or reference_options, also when the call of the text model
\* or of the image model fails: no exception reaches the caller
C23_ChatAlwaysReturns ==
    (rule # "none" /\ request.message # "START_CONVERSATION") =>
        result.type \in ResultTypes

\* the message of the last chat call is a bare integer beyond the reference
\* list of the most recent reference-bearing turn after the last reset marker
BeyondLatestList ==
    /\ LatestList(before.history) # <<>>
    /\ BareInteger[request.message] > Len(LatestList(before.history))

\* C30 (where the text model answered): a bare integer that is out of range
\* for the most recent reference-bearing turn of the history segment binds no
\* reference, in particular none of an older turn, and the turn is handled
\* as a normal turn
C30_OutOfRangeBindsNothing ==
    (BeyondLatestList /\ rule # "raised") =>
        /\ self.selected_reference = before.selected_reference
        /\ rule # "selection"

(***************************************************************************)
(* _extract_image_url and _parse_text_content applied on their own         *)
(***************************************************************************)
\* the longest text is this many tokens, joined by single spaces
MaxTokens == 3

FirstUrlToken == "http://a.co/x"

\* a URL that holds FirstUrlToken as a prefix
LongerUrlToken == "http://a.co/xy"

UrlTokens == {FirstUrlToken, LongerUrlToken}

\* a file name, and a path that ends in that file name
PathTokens == {"f.png", "d/f.png"}

\* words, an empty token (two spaces in a row), a conjunction, a line break,
\* a single character, text with a conjunction, a call to action
WordTokens == {"mira", "", "y", "\n", "A", "Frio y Rico", "compra ya"}

Tokens == UrlTokens \cup PathTokens \cup WordTokens

TokenSeqs == UNION {[1..n -> Tokens] : n \in 1..MaxTokens}

\* the text the tokens make
TextOf(tokens) == Join(tokens, " ")

\* a function with its argument, before the call
Argument(tokens) == [NotApplied EXCEPT !.argument = tokens]

\* the call function(TextOf(tokens)) has returned value
Applied(function, value) ==
    /\ applied.function = "none"
    /\ applied.argument # <<>>
    /\ applied' = [applied EXCEPT !.function = function, !.value = value, !.returned = TRUE]
    /\ UNCHANGED <<chat_vars, registry_vars, server_vars>>

\* clean_text, image_source = _extract_image_url(text)
ExtractImageUrl ==
    Applied("_extract_image_url", extract_image_url(TextOf(applied.argument)))

\* text_content = self._parse_text_content(text)
ParseTextContent ==
    Applied("_parse_text_content", parse_text_content(TextOf(applied.argument)))

InitFunctions ==
    /\ Constructed
    /\ turns = 0
    /\ left = [requests |-> 0, passes |-> 0, ticks |-> 0]
    /\ \E tokens \in TokenSeqs : applied = Argument(tokens)

NextFunctions ==
    \/ ExtractImageUrl
    \/ ParseTextContent

SpecFunctions == InitFunctions /\ [][NextFunctions]_vars

Returned(function) == applied.function = function /\ applied.returned

\* the first token of the sequence that is in S, None if there is none
FirstToken(tokens, S) ==
    IF \E i \in 1..Len(tokens) : tokens[i] \in S
    THEN Some(tokens[MinOr({i \in 1..Len(tokens) : tokens[i] \in S}, 1)])
    ELSE None

HasUrlAndPath ==
    /\ \E i \in 1..Len(applied.argument) : applied.argument[i] \in UrlTokens
    /\ \E i \in 1..Len(applied.argument) : applied.argument[i] \in PathTokens

\* C25: for a text that holds a URL and a file path, in either order, the
\* source _extract_image_url returns is the first URL, never the file path
C25_UrlBeforePath ==
    (Returned("_extract_image_url") /\ HasUrlAndPath) =>
        /\ applied.value.image_source = FirstToken(applied.argument, UrlTokens)
        /\ Get(applied.value.image_source) \notin PathTokens

\* the file path comes first in the text, and the URL was returned
C25_Witness ==
    /\ Returned("_extract_image_url")
    /\ applied.argument = <<"d/f.png", "mira", FirstUrlToken>>
    /\ applied.value = [clean_text |-> "d/f.png mira", image_source |-> Some(FirstUrlToken)]

\* the first URL of the tokens, else their first file path, else None
FirstMatchToken(tokens) ==
    IF FirstToken(tokens, UrlTokens) # None
    THEN FirstToken(tokens, UrlTokens)
    ELSE FirstToken(tokens, PathTokens)

\* the tokens without the first one that equals token
WithoutFirst(tokens, token) ==
    LET i == MinOr({j \in 1..Len(tokens) : tokens[j] = token}, Len(tokens) + 1)
    IN  SubSeq(tokens, 1, i - 1) \o SubSeq(tokens, i + 1, Len(tokens))

\* the text of the tokens without the first match, its whitespace collapsed
FirstMatchRemoved(tokens) ==
    Join(SplitWords(TextOf(WithoutFirst(tokens, Get(FirstMatchToken(tokens))))), " ")

\* C26: _extract_image_url uses the first match only: the source is the first
\* URL, or with no URL the first file path; the cleaned text is the text with
\* that one matched substring removed and the whitespace collapsed, so every
\* other URL or file path is still in it; with no match the text comes back
\* unchanged with no source
C26_OnlyFirstMatchRemoved ==
    Returned("_extract_image_url") =>
        /\ applied.value.image_source = FirstMatchToken(applied.argument)
        /\ applied.value.clean_text =
              IF FirstMatchToken(applied.argument) = None
              THEN TextOf(applied.argument)
              ELSE FirstMatchRemoved(applied.argument)

\* the fragments of the parsed text: its lines, split at the conjunction too,
\* trimmed, without the empty and the single-character ones (593-602)
Fragments == CollectPieces(TextLines(TextOf(applied.argument)))

IsCallToAction(fragment) == \E kw \in cta_keywords : Contains(Lower(fragment), kw)

\* C27: _parse_text_content assigns the roles by the number of fragments:
\* three or more give headline, subheadline and cta and the rest is dropped;
\* two give the headline and a cta when the second holds a call-to-action
\* keyword, else a subheadline; one gives the headline; none makes the
\* trimmed message the headline
C27_RolesByFragmentCount ==
    Returned("_parse_text_content") =>
        /\ Len(Fragments) >= 3 =>
              applied.value =
                 TextContent(Some(Fragments[1]), Some(Fragments[2]), Some(Fragments[3]))
        /\ (Len(Fragments) = 2 /\ IsCallToAction(Fragments[2])) =>
              applied.value = TextContent(Some(Fragments[1]), None, Some(Fragments[2]))
        /\ (Len(Fragments) = 2 /\ ~IsCallToAction(Fragments[2])) =>
              applied.value = TextContent(Some(Fragments[1]), Some(Fragments[2]), None)
        /\ Len(Fragments) = 1 =>
              applied.value = TextContent(Some(Fragments[1]), None, None)
        /\ Len(Fragments) = 0 =>
              applied.value = TextContent(Some(Strip(TextOf(applied.argument))), None, None)

\* four fragments: the fourth is dropped
C27_Witness ==
    /\ Returned("_parse_text_content")
    /\ applied.argument = <<"Frio y Rico", "y", "Frio y Rico">>
    /\ Len(Fragments) = 4
    /\ applied.value = TextContent(Some("Frio"), Some("Rico"), Some("Frio"))

(***************************************************************************)
(* The text specification step                                             *)
(***************************************************************************)
\* a role of the text content holds text
RoleHasText(part) == part # None /\ Get(part) # ""

\* C28: after a chat call consumed as the text specification step, whatever
\* the message (blank and single-character ones too), text_content is None,
\* the no-text value, or one at least of headline, subheadline and cta holds text
C28_TextContentNeverEmpty ==
    (rule = "text_spec" /\ result.type # "exception") =>
        \/ self.text_content = None
        \/ RoleHasText(Get(self.text_content).headline)
        \/ RoleHasText(Get(self.text_content).subheadline)
        \/ RoleHasText(Get(self.text_content).cta)

(***************************************************************************)
(* A turn whose image cannot be loaded                                     *)
(***************************************************************************)
\* the calls of the text model among the calls of the turn
TextModelCallsMade ==
    {i \in DOMAIN calls : calls[i].api = "generate_content" /\ calls[i].model = "text_model"}

\* the image chosen for the turn could not be loaded
ImageLoadFailed ==
    /\ rule # "none"
    /\ calls # <<>>
    /\ calls[1].api = "load_image"
    /\ ~calls[1].ok

\* C24: when the image chosen for the turn cannot be loaded the turn goes on:
\* the text model is called once, with the prompt alone, and the turn ends
\* with a well-formed result
C24_LoadFailureIsNotFatal ==
    ImageLoadFailed =>
        /\ Cardinality(TextModelCallsMade) = 1
        /\ \A i \in TextModelCallsMade : ~calls[i].with_image
        /\ result.type \in ResultTypes

(***************************************************************************)
(* POST /chat and POST /reset of agent_server.py (47-105): one agent for   *)
(* every client                                                            *)
(***************************************************************************)
\* the requests explored
MaxPosts == 3

\* the message fields of the bodies posted
HttpMessages == {"", "Generar"}

\* the image_path fields of the bodies posted: none, a file that exists, a
\* file that does not
HttpImagePaths == {None, Some("/uploads/vela.png"), Some("/uploads/borrada.png")}

\* os.path.exists(image_path) (72)
ExistingFiles == {"/uploads/vela.png"}

\* the truth value of an optional string: None and "" are false
Given(o) == IF o = None THEN FALSE ELSE Get(o) # ""

\* full_message (68-75): the path is appended to the message when the file exists
HttpFullMessage(message, image_path) ==
    IF Given(image_path) /\ Get(image_path) \in ExistingFiles
    THEN Strip(message \o " " \o Get(image_path))
    ELSE message

\* not message and not image_path (64)
NothingPosted(message, image_path) == message = "" /\ ~Given(image_path)

\* the server waits for a request: no call of chat is under way
Waiting(bound) == server.pending = None /\ Len(server.lines) < bound /\ turns = 0

\* 47-66: the body holds no message and no image path: 400, chat is not called
HttpBadRequest(message, image_path) ==
    /\ Waiting(MaxPosts)
    /\ NothingPosted(message, image_path)
    /\ server' = [server EXCEPT !.lines = Append(@, "refused"),
                                !.replies = Append(@, Reply("error", "Message or image_path required")),
                                !.received = Received("http", "", message, image_path)]
    /\ UNCHANGED <<chat_vars, registry_vars, heap, applied>>

\* 47-77: the body is read, full_message built and agent.chat(full_message)
\* called: the image path is not passed to chat
HttpChat(message, image_path) ==
    /\ Waiting(MaxPosts)
    /\ ~NothingPosted(message, image_path)
    /\ server' = [server EXCEPT !.lines = Append(@, "request"),
                                !.received = Received("http", "", message, image_path),
                                !.pending =
                                    Some(Request(HttpFullMessage(message, image_path), None))]
    /\ turns' = 1
    /\ UNCHANGED <<self, before, request, rule, calls, result, registry_vars, heap, applied>>

\* 91-99: POST /reset constructs a new agent in place of the old one
HttpReset ==
    /\ Waiting(MaxPosts)
    /\ self' = NewAgent
    /\ server' = [server EXCEPT !.lines = Append(@, "reset"),
                                !.replies = Append(@, Reply("ok", "Conversation history cleared")),
                                !.received = NoRequest]
    /\ UNCHANGED <<before, request, rule, calls, result, turns, registry_vars, heap, applied>>

\* the messages agent.chat is called with
HttpFullMessages ==
    {HttpFullMessage(message, image_path) :
        message \in HttpMessages, image_path \in HttpImagePaths}

\* the call of chat the server has made: the text model answers in plain text
\* or asks for the pipeline
HttpCall(user_message, image_path) ==
    \/ PipelineTurn(user_message, image_path)
    \/ PlainTurn(user_message, image_path)

InitHttp == Constructed /\ AtRest /\ turns = 0

NextHttp ==
    \/ \E message \in HttpMessages, image_path \in HttpImagePaths :
          \/ HttpBadRequest(message, image_path)
          \/ HttpChat(message, image_path)
    \/ HttpReset
    \/ \E user_message \in HttpFullMessages, image_path \in {None} :
          HttpCall(user_message, image_path)

SpecHttp == InitHttp /\ [][NextHttp]_vars

\* the server has answered a request that carried an image path
ImagePathServed(transport) ==
    /\ server.received.transport = transport
    /\ server.received.image_path # None
    /\ server.pending = None
    /\ server.replies # <<>>
    /\ server.replies[Len(server.replies)].status = "success"

\* C29: a POST /chat that carries an image_path leaves the agent with
\* product_image_path set to that path, as the request of the line protocol does
C29_HttpStoresImagePath ==
    ImagePathServed("http") => self.product_image_path = server.received.image_path

(***************************************************************************)
(* The line protocol of agent_direct.py (80-137): one agent per session    *)
(***************************************************************************)
\* the lines explored
MaxLines == 3

JsonString(s) == "\"" \o s \o "\""

\* a request as a line of JSON
RequestLine(session_id, message, image_path) ==
    "{\"session_id\": " \o JsonString(session_id)
    \o ", \"message\": " \o JsonString(message)
    \o (IF image_path # None THEN ", \"image_path\": " \o JsonString(Get(image_path)) ELSE "")
    \o "}"

\* the requests of two sessions: a search, a selection, a reset, an image alone
ServerRequests ==
    {Received("line", "s1", "Busca referencias", None),
     Received("line", "s1", "1", None),
     Received("line", "s1", "RESET_CONVERSATION", None),
     Received("line", "s2", "Busca referencias", None),
     Received("line", "s2", "1", None),
     Received("line", "s2", "", Some("/uploads/vela.png"))}

RequestLines ==
    {RequestLine(r.session_id, r.message, r.image_path) : r \in ServerRequests}

\* an empty line, a line of spaces, text that is not JSON, JSON that is not an
\* object, an object without fields, and the requests
InputLines == {"", "  ", "{oops", "[1, 2]", "{}"} \cup RequestLines

\* json.loads(line) and the four request.get of 89-93: the error raised, or
\* the fields with their defaults
json_loads(line) ==
    IF line \in RequestLines
    THEN [error |-> "none",
          request |-> CHOOSE r \in ServerRequests :
                         RequestLine(r.session_id, r.message, r.image_path) = line]
    ELSE IF line = "{}"
    THEN [error |-> "none", request |-> Received("line", "default", "", None)]
    ELSE IF line = "[1, 2]"
    THEN [error |-> "'list' object has no attribute 'get'", request |-> NoRequest]
    ELSE [error |-> "Invalid JSON", request |-> NoRequest]

\* line.strip() parsed (82, 89-93), by line, computed once
Parsed == [line \in InputLines |-> json_loads(Strip(line))]

\* cleanup_old_sessions run to its end by the main thread alone (36-47): the
\* sessions not used for more than SESSION_TIMEOUT
ExpiredSessions ==
    {sid \in dict_keys(session_last_used) :
        now - dict_get(session_last_used, sid) > SESSION_TIMEOUT}

\* an agent that every session shares
get_or_create_shared_agent(session_id) ==
    [agents |-> [sid \in DOMAIN agents \cup {session_id} |-> 1],
     session_last_used |-> dict_set(session_last_used, session_id, now),
     constructed |-> 1,
     returned |-> 1]

\* get_or_create_agent(session_id) run to its end by the main thread alone
\* (23-34): the two dicts and the count of agents constructed after the call,
\* and the agent object returned
get_or_create_agent(session_id) ==
    LET expired == IF Cardinality(DOMAIN agents) >= MAX_AGENTS THEN ExpiredSessions ELSE {}
        kept == [sid \in (DOMAIN agents) \ expired |-> agents[sid]]
        used == [i \in DOMAIN session_last_used |->
                    IF session_last_used[i].key \in expired THEN Deleted
                    ELSE session_last_used[i]]
        all == IF session_id \in DOMAIN kept THEN kept
               ELSE [sid \in DOMAIN kept \cup {session_id} |->
                        IF sid = session_id THEN constructed + 1 ELSE kept[sid]]
    IN  [agents |-> all,
         session_last_used |-> dict_set(used, session_id, now),
         constructed |-> IF session_id \in DOMAIN kept THEN constructed ELSE constructed + 1,
         returned |-> all[session_id]]

\* the state of an agent object: self is the one bound to agent in main()
StateOf(o) == IF o = server.serving THEN self ELSE heap[o]

\* 99: agent = get_or_create_agent(session_id, ...); the object returned is
\* the one the rest of the iteration works on
Bind(got) ==
    /\ agents' = got.agents
    /\ session_last_used' = got.session_last_used
    /\ constructed' = got.constructed
    /\ self' = IF got.returned = server.serving THEN self
               ELSE IF got.returned \in DOMAIN heap THEN heap[got.returned]
               ELSE NewAgent
    /\ heap' = [o \in ((DOMAIN heap) \cup {server.serving}) \ {0, got.returned} |->
                   IF o = server.serving THEN self ELSE heap[o]]
    /\ UNCHANGED <<now, main, cleanup_thread, cleanup, touched, passed, left, applied>>

\* 81-84: the line is empty once stripped: no reply, the next line is read
SkipLine(line) ==
    /\ Waiting(MaxLines)
    /\ Strip(line) = ""
    /\ server' = [server EXCEPT !.lines = Append(@, IF line = "" THEN "empty" ELSE "blank"),
                                !.received = NoRequest]
    /\ UNCHANGED <<chat_vars, registry_vars, heap, applied>>

\* 89-93, 126-137: json.loads raises, or the value has no get: an error reply
RejectLine(line) ==
    /\ Waiting(MaxLines)
    /\ Strip(line) # ""
    /\ Parsed[line].error # "none"
    /\ server' = [server EXCEPT !.lines = Append(@, "rejected"),
                                !.replies = Append(@, Reply("error", Parsed[line].error)),
                                !.received = NoRequest]
    /\ UNCHANGED <<chat_vars, registry_vars, heap, applied>>

\* 89-111, 124: the request holds no message and no image: the agent of the
\* session is looked up or created, then an error reply
RefuseRequest(line) ==
    /\ Waiting(MaxLines)
    /\ Strip(line) # ""
    /\ Parsed[line].error = "none"
    /\ NothingPosted(Parsed[line].request.message, Parsed[line].request.image_path)
    /\ Bind(get_or_create_agent(Parsed[line].request.session_id))
    /\ server' = [server EXCEPT !.lines = Append(@, "refused"),
                                !.replies = Append(@, Reply("error", "No message or image provided")),
                                !.received = Parsed[line].request,
                                !.serving = get_or_create_agent(Parsed[line].request.session_id).returned]
    /\ UNCHANGED <<before, request, rule, calls, result, turns>>

\* 89-120: the agent of the session is looked up or created and chat called
\* with the message, the placeholder for an image alone, and the image path
AcceptRequest(line) ==
    /\ Waiting(MaxLines)
    /\ Strip(line) # ""
    /\ Parsed[line].error = "none"
    /\ ~NothingPosted(Parsed[line].request.message, Parsed[line].request.image_path)
    /\ Bind(get_or_create_agent(Parsed[line].request.session_id))
    /\ server' = [server EXCEPT !.lines = Append(@, "request"),
                                !.received = Parsed[line].request,
                                !.serving = get_or_create_agent(Parsed[line].request.session_id).returned,
                                !.pending =
                                    Some(Request(IF Parsed[line].request.message = ""
                                                 THEN PLACEHOLDER
                                                 ELSE Parsed[line].request.message,
                                                 Parsed[line].request.image_path))]
    /\ turns' = 1
    /\ UNCHANGED <<before, request, rule, calls, result>>

\* the messages main() calls chat with
ServerMessages == {"Busca referencias", "1", "RESET_CONVERSATION", PLACEHOLDER}

\* the call of chat main() has made
ServerCall(user_message, image_path) ==
    \/ ResetCommandTurn(user_message, image_path)
    \/ TextModelRaises(user_message, image_path)
    \/ SelectionTurn(user_message, image_path)
    \/ TextSpecTurn(user_message, image_path)
    \/ SearchTurn(user_message, image_path)
    \/ PlainTurn(user_message, image_path)

InitServer == Constructed /\ AtRest /\ turns = 0

NextServer ==
    \/ \E line \in InputLines :
          \/ SkipLine(line)
          \/ RejectLine(line)
          \/ RefuseRequest(line)
          \/ AcceptRequest(line)
    \/ \E user_message \in ServerMessages, image_path \in ImagePaths :
          ServerCall(user_message, image_path)

SpecServer == InitServer /\ [][NextServer]_vars

\* the state of the agent of a session in the registry
SessionState(sid) == StateOf(agents[sid])

\* the session of the request the server is serving or has served last, ""
\* when the last line held no request
ServedSession == server.received.session_id

\* C21: a step taken for one session, a reset included, leaves the agent, the
\* history and the workflow fields of every other session of the registry
\* as they were
C21_SessionsIndependent ==
    [][\A sid \in (DOMAIN agents) \cap (DOMAIN agents') :
          sid # ServedSession' =>
              /\ agents'[sid] = agents[sid]
              /\ SessionState(sid)' = SessionState(sid)]_vars

\* a reset has been served for s1, whose history was not empty, while s2
\* holds a history and a product image
C21_Witness ==
    /\ rule = "reset_command"
    /\ ServedSession = "s1"
    /\ server.pending = None
    /\ before.history # <<>>
    /\ self # before
    /\ "s2" \in DOMAIN agents
    /\ SessionState("s2").history # <<>>
    /\ SessionState("s2").product_image_path # None

\* the lines read that the server answers or is about to answer, in their order
AnsweredLines(skipped) ==
    SelectSeq(server.lines, LAMBDA kind : kind \notin skipped)

\* the lines of these kinds are answered, one reply each and in their order,
\* the last one possibly still to come: the reply is written before the next
\* line is read, and the reply to a rejected line has status error
OneReplyEach(skipped) ==
    /\ Len(server.replies) + (IF server.pending # None THEN 1 ELSE 0)
          = Len(AnsweredLines(skipped))
    /\ \A i \in 1..Len(server.replies) :
          /\ i <= Len(AnsweredLines(skipped))
          /\ AnsweredLines(skipped)[i] \in {"rejected", "refused"} =>
                server.replies[i].status = "error"

\* C22 (as the code has it): the server writes exactly one reply for every
\* line that is not empty once its whitespace is stripped, before it reads
\* the next line; a line that is not JSON or not a JSON object gets a reply
\* of status error and the lines after it are still served
C22_OneReplyPerLine == OneReplyEach({"empty", "blank"})

\* a line that is not JSON was answered with an error, then a request was
\* served with success
C22_Witness ==
    /\ server.lines = <<"rejected", "blank", "request">>
    /\ Len(server.replies) = 2
    /\ server.replies[1].status = "error"
    /\ server.replies[2].status = "success"

\* C22 (as stated): exactly one reply for every non-empty line
C22_OneReplyPerNonEmptyLine == OneReplyEach({"empty"})

(***************************************************************************)
(* The priority of the selection over the text specification               *)
(***************************************************************************)
\* C31: when the agent waits for the text and the message is a bare integer
\* valid for the current reference list, the call binds that reference again,
\* leaves awaiting_text_input true and does not store the integer as text_content
C31_SelectionBeforeText ==
    (rule # "none" /\ before.awaiting_text_input /\ SelectsFromLatest) =>
        /\ self.selected_reference =
              Some(LatestList(before.history)[BareInteger[request.message]])
        /\ self.awaiting_text_input
        /\ self.text_content = before.text_content

(***************************************************************************)
(* The fields of the trigger blocks                                        *)
(***************************************************************************)
\* the stripped lines of the response that follow the marker
LinesAfter(response_text, marker) == StrippedLines(TextAfter(Strip(response_text), marker))

RECURSIVE FirstValue(_, _, _)
\* the value of the first of the lines that starts with the key, or the default
FirstValue(lines, key, default) ==
    IF lines = <<>> THEN default
    ELSE IF StartsWith(Head(lines), key) /\ ValueOf(Head(lines), key) # ""
    THEN ValueOf(Head(lines), key)
    ELSE IF StartsWith(Head(lines), key) THEN default
    ELSE FirstValue(Tail(lines), key, default)

\* the request of the last chat call to the endpoint
CallTo(api) == calls[CHOOSE i \in DOMAIN calls : calls[i].api = api]

\* C32: the query of a search, the prompt of a pipeline generation and the
\* prompt of a reel are read from the lines that follow the marker only, and a
\* key that stands on several lines has the value of its first line
C32_FirstLineAfterMarker ==
    /\ (rule = "search" /\ Called("search-references")) =>
           CallTo("search-references").query =
               FirstValue(LinesAfter(ModelResponse, SEARCH_MARKER), "QUERY:", DEFAULT_QUERY)
    /\ (rule = "pipeline" /\ Called("pipeline")) =>
           CallTo("pipeline").textPrompt =
               FirstValue(LinesAfter(ModelResponse, PIPELINE_MARKER), "PROMPT:",
                          DEFAULT_PIPELINE_PROMPT)
    /\ (rule = "reel" /\ Called("video/generate")) =>
           CallTo("video/generate").prompt =
               FirstValue(LinesAfter(ModelResponse, REEL_MARKER), "PROMPT:", "")

\* a key on a line before the marker is read: the search sends its query
C32_KeyBeforeMarkerRead ==
    (rule = "search" /\ ModelResponse = SEARCH_KEY_BEFORE_REPLY)
        => CallTo("search-references").query # "mesas"

\* the reel reads the lines after its marker, and the last line of a key
C32_ReelLastLine ==
    (rule = "reel" /\ ModelResponse = REEL_KEY_TWICE_REPLY /\ Called("video/generate"))
        => CallTo("video/generate").prompt # "flor"

NonNullFields(text_content) ==
    (IF text_content.headline # None THEN <<Get(text_content.headline)>> ELSE <<>>)
    \o (IF text_content.subheadline # None THEN <<Get(text_content.subheadline)>> ELSE <<>>)
    \o (IF text_content.cta # None THEN <<Get(text_content.cta)>> ELSE <<>>)

\* C34: the pipeline request carries skipText true exactly when text_content
\* is None; otherwise skipText is false and userText holds the roles of
\* text_content that are not None, in the order headline, subheadline, cta,
\* whatever SKIP_TEXT the block names
C34_SkipTextFollowsTextContent ==
    (rule = "pipeline" /\ Called("pipeline")) =>
        IF before.text_content = None
        THEN CallTo("pipeline").skipText = "true"
        ELSE /\ CallTo("pipeline").skipText = "false"
             /\ CallTo("pipeline").userText = Some(NonNullFields(Get(before.text_content)))

\* the positions of the calls of the last chat call to the endpoint
CallsTo(api) == {i \in DOMAIN calls : calls[i].api = api}

\* the lead-in of the generated image: the text before the marker, or the fixed one
PipelineLead ==
    LET lead == Strip(TextBefore(Strip(ModelResponse), PIPELINE_MARKER))
    IN  IF lead = "" THEN PIPELINE_LEAD_IN ELSE lead

\* C35: a pipeline turn sends the ranking increment at most once, after a
\* pipeline call that answered with success and a finalImagePath, and with a
\* reference image in the request; whether the increment went through or
\* failed, the result and the state of the session are the same
C35_RankingFireAndForget ==
    (rule = "pipeline" /\ Called("increment-reference-ranking")) =>
        /\ Cardinality(CallsTo("increment-reference-ranking")) = 1
        /\ \A i \in CallsTo("increment-reference-ranking") :
              \E j \in CallsTo("pipeline") :
                  /\ j < i
                  /\ ~calls[j].raised
                  /\ calls[j].success
                  /\ calls[j].finalImagePath \notin {None, Some("")}
                  /\ calls[j].referenceImage # ""
                  /\ calls[i].referenceFilename = calls[j].referenceImage
        /\ result = Result("image", PipelineLead, AnsweredPath, <<>>, None)
        /\ self = [AfterUserTurn(before, request.message, request.image_path) EXCEPT !.history =
                      Append(@, AssistantTurn(PipelineLead \o "\n[Image generated via pipeline]"))]

\* the increment failed after a generation with a selected reference
C35_Witness ==
    /\ rule = "pipeline"
    /\ Called("increment-reference-ranking")
    /\ ~CallTo("increment-reference-ranking").ok
    /\ before.selected_reference # None
    /\ result.type = "image"

(***************************************************************************)
(* The analysis of the product image in a selection turn                   *)
(***************************************************************************)
\* the analysis of the selection turn failed: the image did not load, the
\* call of the model raised or its answer is no JSON
AnalysisFailed ==
    /\ rule = "selection"
    /\ self.product_image_path # None
    /\ LET last == calls[Len(calls)]
       IN  IF last.api = "load_image" THEN ~last.ok
           ELSE last.response \in {None, Some("bad_json")}

\* C36: when the analysis of the product fails in a selection turn,
\* product_analysis is left None and the selection completes: the reference is
\* bound, awaiting_text_input is set and the question about the text is returned
C36_FailedAnalysisLeavesNone ==
    AnalysisFailed =>
        /\ self.product_analysis = None
        /\ self.selected_reference # None
        /\ self.awaiting_text_input
        /\ result = TextResult(TextQuestion(self.design_guidelines))

\* the selection completes after a failed analysis, with the safe defaults stored
C36_SelectionCompletes ==
    AnalysisFailed =>
        /\ self.product_analysis = Some(SAFE_DEFAULTS)
        /\ self.selected_reference # None
        /\ self.awaiting_text_input
        /\ result = TextResult(TextQuestion(self.design_guidelines))

(***************************************************************************)
(* The conversation of the prompt                                          *)
(***************************************************************************)
\* the history the prompt of the last chat call was built from: the stored
\* history with the user turn of the call
PromptHistory == AfterUserTurn(before, request.message, request.image_path).history

\* conversation_parts of the call of the text model in the last chat call
PromptConversation == calls[TextModelAt].conversation_parts

\* C37: the conversation of the prompt of a turn that calls the text model holds
\* at most 12 turns: the most recent turns of the history, in the order they
\* were stored, the last of them the user turn of the call
C37_PromptWindow ==
    (rule # "none" /\ CalledTextModel) =>
        LET h == PromptHistory
            c == PromptConversation
        IN  /\ Len(c) <= 12
            /\ Len(c) = IF Len(h) < 12 THEN Len(h) ELSE 12
            /\ \A i \in 1..Len(c) : c[i] = RenderTurn(h[Len(h) - Len(c) + i])
            /\ c[Len(c)] = RenderTurn(UserTurn(IF Extracted[request.message].clean_text # ""
                                               THEN Extracted[request.message].clean_text
                                               ELSE EffectiveMessage(request.message),
                                               Extracted[request.message].image_source))

\* a call of the text model with more than 12 turns stored
C37_Witness ==
    /\ rule = "plain"
    /\ CalledTextModel
    /\ Len(PromptHistory) > 12
    /\ Len(PromptConversation) = 12
    /\ PromptConversation[1] # RenderTurn(PromptHistory[1])

(***************************************************************************)
(* The fields that depend on the selected reference                        *)
(***************************************************************************)
\* C38: in every state of a session, when selected_reference is None then
\* awaiting_text_input is false and design_guidelines and product_analysis are None
C38_NothingWithoutReference ==
    self.selected_reference = None =>
        /\ ~self.awaiting_text_input
        /\ self.design_guidelines = None
        /\ self.product_analysis = None

\* a reset of a session that had a reference, its guidelines and an analysis,
\* and was waiting for the text
C38_Witness ==
    /\ WasReset
    /\ before.selected_reference # None
    /\ before.awaiting_text_input
    /\ before.design_guidelines # None
    /\ before.product_analysis # None
    /\ self.selected_reference = None

(***************************************************************************)
(* The frame of a plain reply                                              *)
(***************************************************************************)
\* C39: a chat call answered in plain text (no reset, no selection, no text
\* awaited, no marker in the response) appends one user turn and one assistant
\* turn to the history and changes nothing else but product_image_path, which
\* takes the image_path of the call when one is passed
C39_PlainReplyFrame ==
    rule = "plain" =>
        /\ Len(self.history) = Len(before.history) + 2
        /\ SubSeq(self.history, 1, Len(before.history)) = before.history
        /\ self.history[Len(self.history) - 1].role = "user"
        /\ LastTurn.role = "assistant"
        /\ self.selected_reference = before.selected_reference
        /\ self.text_content = before.text_content
        /\ self.awaiting_text_input = before.awaiting_text_input
        /\ self.design_guidelines = before.design_guidelines
        /\ self.product_analysis = before.product_analysis
        /\ self.product_image_path =
               IF request.image_path \notin {None, Some("")}
               THEN request.image_path ELSE before.product_image_path

\* a plain reply to a call that brings an image to a session with a reference
\* and a text
C39_Witness ==
    /\ rule = "plain"
    /\ before.selected_reference # None
    /\ before.text_content # None
    /\ before.product_image_path = None
    /\ self.product_image_path = Some("/uploads/vela.png")
    /\ LastTurn.content = PLAIN_REPLY

(***************************************************************************)
(* The keys of the two dictionaries of the registry                        *)
(***************************************************************************)
\* C40: whenever neither get_or_create_agent nor cleanup_old_sessions is under
\* way, agents and session_last_used hold the same keys, however the requests
\* of the main thread and the passes of the cleanup thread interleave
C40_SameKeysAtRest ==
    ~AtWork => DOMAIN agents = dict_keys(session_last_used)

====
